---- MODULE Spec2Model ----
(***************************************************************************)
(* QuoteBot: the memory engine (memory/vector_db.py), the quote retriever  *)
(* (memory/quote_db.py) and the staged pipeline                            *)
(* (agents/cinematic_pipeline.py) as state machines.                       *)
(*                                                                         *)
(* Conventions.                                                            *)
(*  - Positions of a list are 1-based here (Python's position p is p+1);   *)
(*    the index library's "no result" label -1 is kept as -1.              *)
(*  - Real numbers are exact rationals <<numerator, denominator>> with a   *)
(*    positive denominator.                                                *)
(*  - The sentence encoder is a black box text -> vector; it is a fixed    *)
(*    table here, Embed, onto points of a line measured in half units, so  *)
(*    that the squared L2 distance the flat index reports is a multiple    *)
(*    of 1/4.                                                              *)
(*  - The clock counts ticks of half a day.                                *)
(***************************************************************************)
EXTENDS Integers, Sequences, FiniteSets, TLC

VARIABLES
    databases,      \* VectorDBManager.databases: domain -> [index, data]
    disk,           \* the persisted artifacts of each domain: [index, data]
    now,            \* time.time(), in ticks
    startedEmpty,   \* the domains whose store was created empty at start-up
    adds,           \* add_memory calls so far
    last,           \* the last call, add_memory or search_with_decay, and its outcome
    quote_db,       \* the QuoteDBManager: status, quotes, index, _emotion_vecs
    used_indices,   \* CinematicPipeline._used_indices, the anti-repetition ring
    accepted,       \* the positions of the quotes accepted so far, oldest first
    quote_files,    \* data/quote_dictionary.json and data/indexes/quote.index
    lastQuote,      \* the last search_quote or retrieve_quote call and its outcome
    pc,             \* where the current run is: idle, load_context, fanout, blend, finish
    state,          \* the GraphState the next stage receives
    returns,        \* the states the two parallel stages returned, in completion order
    chat_buffer,    \* ConversationBuffer.buffer
    llm_calls,      \* the stages that called generate_stream in this run
    gatekeeper_tasks,  \* the tasks made by asyncio.create_task(evaluate_and_store(user_query))
    turn,           \* this run: how many runs so far, what the stages produced, what run returned
    calls,          \* the calls in flight when callers overlap: caller -> frame
    interactions    \* every (user_text, assistant_text) given to add_interaction, oldest first

memVars == <<databases, disk, now, startedEmpty, adds, last>>
quoteVars == <<quote_db, quote_files, used_indices, accepted, lastQuote>>
pipeVars == <<pc, state, returns, chat_buffer, llm_calls, gatekeeper_tasks, turn>>
concVars == <<calls, interactions>>
vars == <<databases, disk, now, startedEmpty, adds, last,
          quote_db, quote_files, used_indices, accepted, lastQuote,
          pc, state, returns, chat_buffer, llm_calls, gatekeeper_tasks, turn,
          calls, interactions>>

----------------------------------------------------------------------------
(* Bounds of the model *)

MaxTime == 1        \* the clock stops advancing here
MaxAdds == 3        \* add_memory calls in one behaviour
MaxAccepts == 7     \* quotes accepted in one behaviour
MaxTurns == 2       \* runs of the pipeline in one behaviour
MaxInteractions == 4   \* add_interaction calls on a buffer in one behaviour

\* The GraphState run hands to the graph, and the pipeline before any run.
InitialState(user_query) ==
    [user_query |-> user_query, preferences |-> <<>>, chat_history |-> <<>>,
     direct_answer |-> <<>>, selected_quote |-> <<>>, final_response |-> <<>>]

NoTurn == [count |-> 0]

PipeIdle ==
    /\ pc = "idle"
    /\ state = InitialState("")
    /\ returns = <<>>
    /\ chat_buffer = <<>>
    /\ llm_calls = <<>>
    /\ gatekeeper_tasks = <<>>
    /\ turn = NoTurn

\* The two callers of the overlap behaviours, and a caller with no call in
\* flight.
Callers == {1, 2}
NoFrame == [op |-> "none"]

NoOverlap ==
    /\ calls = [c \in Callers |-> NoFrame]
    /\ interactions = <<>>

----------------------------------------------------------------------------
(* Rationals *)

Rat(n, d) == <<n, d>>

RECURSIVE GCD(_, _)
GCD(a, b) == IF b = 0 THEN a ELSE GCD(b, a % b)

\* The same number in lowest terms (numerator >= 0).
Reduce(r) == LET g == GCD(r[1], r[2]) IN <<r[1] \div g, r[2] \div g>>

RAdd(a, b) == <<a[1] * b[2] + b[1] * a[2], a[2] * b[2]>>
RMul(a, b) == <<a[1] * b[1], a[2] * b[2]>>
RInv(a) == <<a[2], a[1]>>                 \* for a > 0
RLess(a, b) == a[1] * b[2] < b[1] * a[2]
RLeq(a, b) == a[1] * b[2] <= b[1] * a[2]
REq(a, b) == a[1] * b[2] = b[1] * a[2]

Min(a, b) == IF a < b THEN a ELSE b

----------------------------------------------------------------------------
(* The encoder and the flat L2 index *)

Texts == {"dark mode", "dim mode", "light mode", "plays chess"}

\* self.model.encode([text]): the point of the text, in half units.
Embed(text) ==
    CASE text = "dark mode"   -> 0
      [] text = "dim mode"    -> 1
      [] text = "light mode"  -> 2
      [] text = "plays chess" -> 4
      [] text = "hi" -> 4
      [] text = " go\ton  now " -> 4
      [] text = "I need a lift" -> 4
      [] text = "how do i go on" -> 3
      [] text = "what time is it" -> 1
      [] text = "remember that I prefer dark mode" -> 0

\* The squared L2 distance IndexFlatL2 reports between two vectors (half
\* units squared are quarters).
L2Dist(u, v) == Rat((u - v) * (u - v), 4)

RECURSIVE InsertHit(_, _)
\* Insert a hit into a list ordered by ascending distance, a later position
\* after the equal distances already there.
InsertHit(hit, sorted) ==
    IF sorted = <<>> THEN <<hit>>
    ELSE IF RLess(hit.dist, sorted[1].dist) THEN <<hit>> \o sorted
    ELSE <<sorted[1]>> \o InsertHit(hit, Tail(sorted))

RECURSIVE HitsUpTo(_, _, _)
HitsUpTo(index, q, n) ==
    IF n = 0 THEN <<>>
    ELSE InsertHit([dist |-> L2Dist(index[n], q), idx |-> n], HitsUpTo(index, q, n - 1))

\* index.search(q, k): the k nearest entries, nearest first, as (distance,
\* position); the tail is padded with position -1 when the index holds fewer
\* than k entries.
IndexSearch(index, q, k) ==
    LET all == HitsUpTo(index, q, Len(index))
    IN [i \in 1..k |-> IF i <= Len(all) THEN all[i]
                       ELSE [dist |-> Rat(0, 1), idx |-> -1]]

----------------------------------------------------------------------------
(* VectorDBManager *)

\* The long-term memory domains that always exist, and a bulk-loaded static
\* one.
DynamicDomains == {"preferences", "learning_progress", "personal_context"}
StaticDomains == {"slang_dictionary"}
Domains == DynamicDomains \cup StaticDomains

Importances == {Rat(1, 2), Rat(1, 1)}

\* Distance < 1.0 means the semantic meaning is basically identical.
IdentityThreshold == Rat(1, 1)

EmptyStore == [index |-> <<>>, data |-> <<>>]

\* What a bulk-loaded reference domain holds: records without a timestamp,
\* indexed by their combined text.
StaticStore ==
    [index |-> <<Embed("dark mode"), Embed("plays chess")>>,
     data |-> <<[text |-> "dark mode"], [text |-> "plays chess"]>>]

\* What an earlier process left on disk for a dynamic domain.
SavedStore(dom) ==
    [index |-> <<Embed("light mode")>>,
     data |-> <<[text |-> "light mode", timestamp |-> 0,
                 importance |-> Rat(1, 2), type |-> dom]>>]

SaveDomain_IndexOnly(d, dom, db) == [d EXCEPT ![dom].index = db.index]

\* _save_domain: both artifacts are written from the in-memory store.
SaveDomain(d, dom, db) == [d EXCEPT ![dom] = db]

MemoryObj(text, t, importance, mem_type) ==
    [text |-> text, timestamp |-> t, importance |-> importance, type |-> mem_type]

\* The rebuild of the overwrite path: a new index over every record's text.
RebuildIndex(data) == [i \in 1..Len(data) |-> Embed(data[i].text)]

OverwriteRecord_KeepsImportance(db, match_idx, obj) ==
    LET data == [db.data EXCEPT ![match_idx] =
                    [obj EXCEPT !.importance = db.data[match_idx].importance]]
    IN [index |-> RebuildIndex(data), data |-> data]

OverwriteRecord_NoRebuild(db, match_idx, obj) ==
    [index |-> db.index, data |-> [db.data EXCEPT ![match_idx] = obj]]

\* The overwrite path: replace the matched record, rebuild the index.
OverwriteRecord(db, match_idx, obj) ==
    LET data == [db.data EXCEPT ![match_idx] = obj]
    IN [index |-> RebuildIndex(data), data |-> data]

AppendRecord_NoIndexAdd(db, embedding, obj) ==
    [index |-> db.index, data |-> Append(db.data, obj)]

\* The append path.
AppendRecord(db, embedding, obj) ==
    [index |-> Append(db.index, embedding), data |-> Append(db.data, obj)]

MatchIdx_Inclusive(db, embedding) ==
    IF Len(db.index) > 0
    THEN LET hit == IndexSearch(db.index, embedding, 1)[1]
         IN IF hit.idx # -1 /\ RLeq(hit.dist, IdentityThreshold) THEN hit.idx ELSE 0
    ELSE 0

\* The dedup check: the position of the nearest record when it lies below the
\* identity threshold, 0 when the store is empty or the nearest is not below.
MatchIdx(db, embedding) ==
    IF Len(db.index) > 0
    THEN LET hit == IndexSearch(db.index, embedding, 1)[1]
         IN IF hit.idx # -1 /\ RLess(hit.dist, IdentityThreshold) THEN hit.idx ELSE 0
    ELSE 0

AddMemoryStore(db, text, importance, mem_type, t) ==
    LET embedding == Embed(text)
        match_idx == MatchIdx(db, embedding)
        obj == MemoryObj(text, t, importance, mem_type)
    IN IF match_idx # 0 THEN OverwriteRecord(db, match_idx, obj)
       ELSE AppendRecord(db, embedding, obj)

NoCall == [op |-> "none"]

add_memory(dom, text, importance, mem_type) ==
    /\ adds < MaxAdds
    /\ adds' = adds + 1
    /\ LET db == databases[dom]
           match_idx == MatchIdx(db, Embed(text))
           new == AddMemoryStore(db, text, importance, mem_type, now)
       IN /\ databases' = [databases EXCEPT ![dom] = new]
          /\ disk' = SaveDomain(disk, dom, new)
          /\ last' = [op |-> IF match_idx # 0 THEN "overwrite" ELSE "append",
                      domain |-> dom, text |-> text, importance |-> importance,
                      type |-> mem_type, match_idx |-> match_idx]
    /\ UNCHANGED <<now, startedEmpty, quoteVars, pipeVars, concVars>>

\* Fetch a wider net than top_k.
FetchWindow == 10
\* The relevance floor on base similarity.
RelevanceFloor == Rat(2, 5)
\* age_in_days = age_in_seconds / 86400.0, the clock counting half days.
TicksPerDay == 2
ImportanceWeight == Rat(1, 2)

\* base_similarity = 1.0 / (1.0 + distance)
BaseSimilarity(dist) == RInv(RAdd(Rat(1, 1), dist))

FinalScore_AgeMultiplies(base_similarity, memory_obj, current_time) ==
    LET age_in_days == Rat(current_time - memory_obj.timestamp, TicksPerDay)
        recency_weight == RMul(base_similarity, RAdd(Rat(1, 1), age_in_days))
    IN RAdd(RAdd(base_similarity, RMul(memory_obj.importance, ImportanceWeight)),
            recency_weight)

\* The decay math of a dynamic record.
FinalScore(base_similarity, memory_obj, current_time) ==
    LET age_in_days == Rat(current_time - memory_obj.timestamp, TicksPerDay)
        importance == memory_obj.importance
        recency_weight == RMul(base_similarity, RInv(RAdd(Rat(1, 1), age_in_days)))
    IN RAdd(RAdd(base_similarity, RMul(importance, ImportanceWeight)), recency_weight)

PassesFloor_NoGate(base_similarity) == TRUE

\* The relevance gate of the loop: a candidate below the floor is skipped.
PassesFloor(base_similarity) == ~RLess(base_similarity, RelevanceFloor)

\* The (score, record) pair a fetched candidate contributes.
ScoreOf(hit, data, current_time) ==
    LET memory_obj == data[hit.idx]
        base_similarity == BaseSimilarity(hit.dist)
    IN [score |-> IF "timestamp" \in DOMAIN memory_obj
                  THEN FinalScore(base_similarity, memory_obj, current_time)
                  ELSE base_similarity,
        obj |-> memory_obj]

RECURSIVE ScoredResults(_, _, _, _)
\* The loop over the fetched candidates, in fetch order.
ScoredResults(hits, data, current_time, i) ==
    IF i > Len(hits) THEN <<>>
    ELSE LET rest == ScoredResults(hits, data, current_time, i + 1)
         IN IF hits[i].idx = -1 \/ ~PassesFloor(BaseSimilarity(hits[i].dist))
            THEN rest
            ELSE <<ScoreOf(hits[i], data, current_time)>> \o rest

RECURSIVE InsertScored_Ascending(_, _)
InsertScored_Ascending(x, sorted) ==
    IF sorted = <<>> THEN <<x>>
    ELSE IF RLess(x.score, sorted[1].score) THEN <<x>> \o sorted
    ELSE <<sorted[1]>> \o InsertScored_Ascending(x, Tail(sorted))

RECURSIVE InsertScored(_, _)
\* list.sort(key=score, reverse=True) is stable: equal scores keep their order.
InsertScored(x, sorted) ==
    IF sorted = <<>> THEN <<x>>
    ELSE IF RLess(sorted[1].score, x.score) THEN <<x>> \o sorted
    ELSE <<sorted[1]>> \o InsertScored(x, Tail(sorted))

RECURSIVE SortScored(_, _)
SortScored(scored, n) ==
    IF n = 0 THEN <<>> ELSE InsertScored(scored[n], SortScored(scored, n - 1))

SearchWithDecay(dbs, domain_name, query, top_k, current_time) ==
    IF domain_name \notin DOMAIN dbs THEN <<>>
    ELSE LET db == dbs[domain_name]
         IN IF Len(db.index) = 0 THEN <<>>
            ELSE LET fetch_k == Min(FetchWindow, Len(db.index))
                     hits == IndexSearch(db.index, Embed(query), fetch_k)
                     scored == ScoredResults(hits, db.data, current_time, 1)
                     sorted == SortScored(scored, Len(scored))
                 IN [i \in 1..Min(top_k, Len(sorted)) |-> sorted[i].obj]

Queries == {"dim mode", "plays chess"}
TopKs == {1, 3}

search_with_decay(domain_name, query, top_k) ==
    /\ last' = [op |-> "search", domain |-> domain_name, query |-> query,
                top_k |-> top_k,
                results |-> SearchWithDecay(databases, domain_name, query, top_k, now)]
    /\ UNCHANGED <<databases, disk, now, startedEmpty, adds, quoteVars, pipeVars, concVars>>

\* The domains the calls of a behaviour go to: add_memory reads and writes
\* databases[domain_name] only, so one dynamic domain takes the insertions.
AddDomains == {"preferences"}
SearchDomains == {"preferences", "slang_dictionary", "unknown"}

\* Time passes between calls.
Tick ==
    /\ now < MaxTime
    /\ now' = now + 1
    /\ last' = NoCall
    /\ UNCHANGED <<databases, disk, startedEmpty, adds, quoteVars, pipeVars, concVars>>

\* _sync_all_indexes: a static domain is loaded from its source; each dynamic
\* domain is restored from its two artifacts when both exist and is created
\* empty, and persisted, otherwise.
MemInit ==
    /\ \E loaded \in SUBSET AddDomains : startedEmpty = DynamicDomains \ loaded
    /\ databases = [dom \in Domains |->
                      IF dom \in StaticDomains THEN StaticStore
                      ELSE IF dom \in startedEmpty THEN EmptyStore
                      ELSE SavedStore(dom)]
    /\ disk = databases
    /\ now = 0
    /\ adds = 0
    /\ last = NoCall
    /\ quote_db = [status |-> "unloaded"]
    /\ quote_files = [json |-> <<>>, index_exists |-> FALSE, index |-> <<>>]
    /\ used_indices = <<>>
    /\ accepted = <<>>
    /\ lastQuote = NoCall
    /\ PipeIdle
    /\ NoOverlap

MemNext ==
    \/ \E dom \in AddDomains, text \in Texts, importance \in Importances :
           add_memory(dom, text, importance, dom)
    \/ \E dom \in SearchDomains, query \in Queries, top_k \in TopKs :
           search_with_decay(dom, query, top_k)
    \/ Tick

SpecMem == MemInit /\ [][MemNext]_vars

----------------------------------------------------------------------------
(* Query texts and str.split *)

UserQueries ==
    {"hi", " go\ton  now ", "I need a lift", "how do i go on", "what time is it"}

\* The characters of a text.
Chars(text) ==
    CASE text = "hi" -> <<"h", "i">>
      [] text = " go\ton  now " ->
            <<" ", "g", "o", "\t", "o", "n", " ", " ", "n", "o", "w", " ">>
      [] text = "I need a lift" ->
            <<"I", " ", "n", "e", "e", "d", " ", "a", " ", "l", "i", "f", "t">>
      [] text = "how do i go on" ->
            <<"h", "o", "w", " ", "d", "o", " ", "i", " ", "g", "o", " ", "o", "n">>
      [] text = "what time is it" ->
            <<"w", "h", "a", "t", " ", "t", "i", "m", "e", " ", "i", "s", " ", "i", "t">>
      [] text = "remember that I prefer dark mode" ->
            <<"r", "e", "m", "e", "m", "b", "e", "r", " ", "t", "h", "a", "t", " ", "I", " ", "p", "r", "e", "f", "e", "r",
             " ", "d", "a", "r", "k", " ", "m", "o", "d", "e">>

Whitespace == {" ", "\t", "\n"}

\* str.lower()
Lower(chars) == [i \in 1..Len(chars) |-> IF chars[i] = "I" THEN "i" ELSE chars[i]]

RECURSIVE SplitFrom(_, _, _)
SplitFrom(chars, i, word) ==
    IF i > Len(chars) THEN (IF word = <<>> THEN <<>> ELSE <<word>>)
    ELSE IF chars[i] \in Whitespace
         THEN (IF word = <<>> THEN <<>> ELSE <<word>>) \o SplitFrom(chars, i + 1, <<>>)
         ELSE SplitFrom(chars, i + 1, Append(word, chars[i]))

\* str.split(): the maximal runs of non-whitespace characters.
Split(chars) == SplitFrom(chars, 1, <<>>)

----------------------------------------------------------------------------
(* QuoteDBManager *)

\* Signal weights
W_SEMANTIC == Rat(70, 100)
W_EMOTION == Rat(30, 100)

\* The reference corpus: six quotes, one with a usecase, one without an
\* emotion label.
QuoteCorpus ==
    <<[text |-> "q1", character |-> "c1", source |-> "s1", emotion |-> "motivation",
       usecase |-> "u1", type |-> "quote"],
      [text |-> "q2", character |-> "c2", source |-> "s2", emotion |-> "motivation",
       type |-> "quote"],
      [text |-> "q3", character |-> "c3", source |-> "s3", emotion |-> "courage",
       type |-> "catchphrase"],
      [text |-> "q4", character |-> "c4", source |-> "s4", emotion |-> "sadness",
       type |-> "quote"],
      [text |-> "q5", character |-> "c5", source |-> "s5", type |-> "quote"],
      [text |-> "q6", character |-> "c6", source |-> "s6", emotion |-> "courage",
       type |-> "quote"]>>

\* What data/quote_dictionary.json may hold.
Corpora == {<<>>, QuoteCorpus}

\* q.get("emotion", "general")
EmotionOf(q) == IF "emotion" \in DOMAIN q THEN q.emotion ELSE "general"

\* The compound document of a quote: its text and its usecase, or the
\* synthesized situation about its emotion.
CompoundDoc(q) ==
    [quote |-> q.text,
     usecase |-> IF "usecase" \in DOMAIN q THEN q.usecase ELSE EmotionOf(q)]

\* The cosine of a query and each quote's compound document, in thousandths
\* (the encoder is a black box; this is its table).
CosRow(query) ==
    CASE query = "I need a lift"   -> <<900, 800, 700, 600, 500, 450>>
      [] query = "how do i go on"  -> <<300, 850, 357, 100, -200, 950>>
      [] query = "what time is it" -> <<357, 100, -50, 0, 200, 300>>
      [] query = "hi"              -> <<800, 600, 0, 0, -100, 0>>
      [] query = " go\ton  now "   -> <<700, 650, 0, 100, 0, 900>>
      [] query = "remember that I prefer dark mode" -> <<100, 50, 0, 0, -100, 0>>

DocNo(doc) ==
    CASE doc.quote = "q1" -> 1 [] doc.quote = "q2" -> 2 [] doc.quote = "q3" -> 3
      [] doc.quote = "q4" -> 4 [] doc.quote = "q5" -> 5 [] doc.quote = "q6" -> 6

\* The inner product of the normalized query and a normalized document.
Cosine(query, doc) == Rat(CosRow(query)[DocNo(doc)], 1000)

\* The inner product of the normalized query and an emotion label's unit
\* vector, in thousandths.
EmotionCosine(query, label) ==
    LET row == CASE query = "I need a lift"   -> [motivation |-> 600, courage |-> 300, sadness |-> -100, general |-> 0]
                 [] query = "how do i go on"  -> [motivation |-> 200, courage |-> 500, sadness |-> 400, general |-> 100]
                 [] query = "what time is it" -> [motivation |-> 0, courage |-> -300, sadness |-> 0, general |-> 1]
                 [] query = "hi"              -> [motivation |-> 0, courage |-> 0, sadness |-> 0, general |-> 0]
                 [] query = " go\ton  now "   -> [motivation |-> 100, courage |-> 100, sadness |-> 100, general |-> 100]
                 [] query = "remember that I prefer dark mode" -> [motivation |-> 100, courage |-> 0, sadness |-> 0, general |-> 0]
    IN Rat(row[label], 1000)

\* _build_emotion_cache: the distinct emotion labels of the quotes.
BuildEmotionCache(quotes) == {EmotionOf(quotes[i]) : i \in 1..Len(quotes)}

\* _load_or_build. The index is restored from the index file when there is
\* one and built from the compound documents otherwise. With no quote the
\* encoder returns an array without a second axis, which neither the build
\* (normalize_L2, embs.shape[1]) nor the emotion cache (norm over axis 1)
\* accepts: the constructor raises.
LoadOrBuild(files) ==
    IF files.json = <<>>
    THEN [status |-> "failed", quotes |-> files.json, index |-> <<>>, emotion_vecs |-> {}]
    ELSE [status |-> "ready",
          quotes |-> files.json,
          index |-> IF files.index_exists THEN files.index
                    ELSE [i \in 1..Len(files.json) |-> CompoundDoc(files.json[i])],
          emotion_vecs |-> BuildEmotionCache(files.json)]

\* _emotion_sim
EmotionSim(db, query, emotion_label) ==
    IF emotion_label \notin db.emotion_vecs THEN Rat(0, 1)
    ELSE EmotionCosine(query, emotion_label)

RMax(a, b) == IF RLess(a, b) THEN b ELSE a

\* float(f"{x:.3f}") of x >= 0: the nearest multiple of 1/1000, a tie to the
\* even one.
Round3(x) ==
    LET m == x[1] * 1000
        k == m \div x[2]
        rem == m % x[2]
    IN Rat(IF 2 * rem > x[2] \/ (2 * rem = x[2] /\ k % 2 = 1) THEN k + 1 ELSE k, 1000)

Composite_DocstringWeights(semantic_sim, emotion_sim) ==
    Reduce(RAdd(Reduce(RMul(Rat(50, 100), semantic_sim)),
                Reduce(RMul(Rat(35, 100), emotion_sim))))

\* composite = W_SEMANTIC * semantic_sim + W_EMOTION * emotion_sim
Composite(semantic_sim, emotion_sim) ==
    Reduce(RAdd(Reduce(RMul(W_SEMANTIC, semantic_sim)),
                Reduce(RMul(W_EMOTION, emotion_sim))))

RECURSIVE InsertIP(_, _)
InsertIP(hit, sorted) ==
    IF sorted = <<>> THEN <<hit>>
    ELSE IF RLess(sorted[1].dist, hit.dist) THEN <<hit>> \o sorted
    ELSE <<sorted[1]>> \o InsertIP(hit, Tail(sorted))

RECURSIVE IPHitsUpTo(_, _, _)
IPHitsUpTo(index, query, n) ==
    IF n = 0 THEN <<>>
    ELSE InsertIP([dist |-> Cosine(query, index[n]), idx |-> n],
                  IPHitsUpTo(index, query, n - 1))

\* IndexFlatIP.search(q, k): the k entries of largest inner product, largest
\* first, padded with position -1.
IPSearch(index, query, k) ==
    LET all == IPHitsUpTo(index, query, Len(index))
    IN [i \in 1..k |-> IF i <= Len(all) THEN all[i]
                       ELSE [dist |-> Rat(0, 1), idx |-> -1]]

InSeq(x, seq) == \E i \in 1..Len(seq) : seq[i] = x

\* The result entry of one fetched candidate.
Candidate(db, query, hit) ==
    LET quote_data == db.quotes[hit.idx]
        semantic_sim == RMax(Rat(0, 1), hit.dist)
        emotion_sim == RMax(Rat(0, 1), EmotionSim(db, query, EmotionOf(quote_data)))
        composite == Composite(semantic_sim, emotion_sim)
    IN [index |-> hit.idx,
        semantic_sim |-> Round3(semantic_sim),
        emotion_sim |-> Round3(emotion_sim),
        type_weight |-> Rat(1, 1),
        composite |-> Round3(composite),
        metadata |-> quote_data]

RECURSIVE Candidates(_, _, _, _, _)
\* The loop over the fetched hits: a used position is skipped.
Candidates(db, query, hits, used, i) ==
    IF i > Len(hits) THEN <<>>
    ELSE LET rest == Candidates(db, query, hits, used, i + 1)
         IN IF hits[i].idx = -1 \/ InSeq(hits[i].idx, used) THEN rest
            ELSE <<Candidate(db, query, hits[i])>> \o rest

RECURSIVE InsertByComposite(_, _)
InsertByComposite(x, sorted) ==
    IF sorted = <<>> THEN <<x>>
    ELSE IF RLess(sorted[1].composite, x.composite) THEN <<x>> \o sorted
    ELSE <<sorted[1]>> \o InsertByComposite(x, Tail(sorted))

RECURSIVE SortByComposite(_, _)
\* results.sort(key=composite, reverse=True), a stable sort.
SortByComposite(results, n) ==
    IF n = 0 THEN <<>>
    ELSE InsertByComposite(results[n], SortByComposite(results, n - 1))

\* search_quote of a loaded retriever.
SearchQuote(db, query, top_k, used) ==
    LET fetch_k == Min(top_k * 4, Len(db.index))
        hits == IPSearch(db.index, query, fetch_k)
        results == Candidates(db, query, hits, used, 1)
        sorted == SortByComposite(results, Len(results))
    IN [i \in 1..Min(top_k, Len(sorted)) |-> sorted[i]]

----------------------------------------------------------------------------
(* CinematicPipeline._node_retrieve_quote *)

MIN_SCORE_Low == Rat(20, 100)

\* Threshold at 0.25
MIN_SCORE == Rat(25, 100)
RingCapacity == 5
RetrieveTopK == 3
MinWords == 4

TooShort_ThreeWords(words) == Len(words) < 3

\* Skip quote search for very short queries (< 4 words).
TooShort(words) == Len(words) < MinWords

PushUsed_EvictsNewest(used, idx) ==
    LET appended == Append(used, idx)
    IN IF Len(appended) > RingCapacity THEN SubSeq(appended, 1, RingCapacity) ELSE appended

PushUsed_NoEviction(used, idx) == IF Len(used) < RingCapacity THEN Append(used, idx) ELSE used

\* Track usage: append, and drop the oldest entry beyond the capacity.
PushUsed(used, idx) ==
    LET appended == Append(used, idx)
    IN IF Len(appended) > RingCapacity THEN Tail(appended) ELSE appended

NoQuote(used) ==
    [selected_quote |-> <<>>, used_indices |-> used, searched |-> FALSE, candidates |-> <<>>]

\* The node: the selected quote (<<>> for None, <<best>> for a quote), the
\* ring after the call, whether search_quote was called and what it returned.
RetrieveQuote(db, user_query, used) ==
    LET words == Split(Lower(Chars(user_query)))
    IN IF TooShort(words) THEN NoQuote(used)
       ELSE LET candidates == SearchQuote(db, user_query, RetrieveTopK, used)
                none == [NoQuote(used) EXCEPT !.searched = TRUE, !.candidates = candidates]
            IN IF candidates = <<>> THEN none
               ELSE IF RLess(candidates[1].composite, MIN_SCORE) THEN none
               ELSE [selected_quote |-> <<candidates[1]>>,
                     used_indices |-> PushUsed(used, candidates[1].index),
                     searched |-> TRUE, candidates |-> candidates]

----------------------------------------------------------------------------
(* The retriever and the retrieve_quote node, one call after another *)

QuoteDBManager_init ==
    /\ quote_db.status = "unloaded"
    /\ quote_db' = LoadOrBuild(quote_files)
    /\ quote_files' = IF quote_db'.status = "ready"
                      THEN [quote_files EXCEPT !.index_exists = TRUE, !.index = quote_db'.index]
                      ELSE quote_files
    /\ UNCHANGED <<memVars, used_indices, accepted, lastQuote, pipeVars, concVars>>

QuoteTopKs == {1, 3}

search_quote(query, top_k, used) ==
    /\ quote_db.status = "ready"
    /\ lastQuote' = [op |-> "search_quote", query |-> query, top_k |-> top_k,
                     used |-> used,
                     results |-> SearchQuote(quote_db, query, top_k, used)]
    /\ UNCHANGED <<memVars, quote_db, quote_files, used_indices, accepted, pipeVars, concVars>>

retrieve_quote(user_query) ==
    /\ quote_db.status = "ready"
    /\ Len(accepted) < MaxAccepts
    /\ LET r == RetrieveQuote(quote_db, user_query, used_indices)
       IN /\ used_indices' = r.used_indices
          /\ accepted' = IF r.selected_quote = <<>> THEN accepted
                         ELSE Append(accepted, r.selected_quote[1].index)
          /\ lastQuote' = [op |-> "retrieve_quote", query |-> user_query,
                           used |-> used_indices, searched |-> r.searched,
                           candidates |-> r.candidates,
                           selected_quote |-> r.selected_quote]
    /\ UNCHANGED <<memVars, quote_db, quote_files, pipeVars, concVars>>

\* The corpus file, and the index file an earlier process built from it.
QuoteInit ==
    /\ \E corpus \in Corpora, restored \in BOOLEAN :
          quote_files = [json |-> corpus,
                         index_exists |-> restored /\ corpus # <<>>,
                         index |-> IF restored /\ corpus # <<>>
                                   THEN [i \in 1..Len(corpus) |-> CompoundDoc(corpus[i])]
                                   ELSE <<>>]
    /\ quote_db = [status |-> "unloaded"]
    /\ used_indices = <<>>
    /\ accepted = <<>>
    /\ lastQuote = NoCall
    /\ databases = [dom \in Domains |-> IF dom \in StaticDomains THEN StaticStore ELSE EmptyStore]
    /\ disk = databases
    /\ startedEmpty = DynamicDomains
    /\ now = 0
    /\ adds = 0
    /\ last = NoCall
    /\ PipeIdle
    /\ NoOverlap

QuoteNext ==
    \/ QuoteDBManager_init
    \/ \E query \in UserQueries, top_k \in QuoteTopKs, used \in {<<>>, used_indices} :
           search_quote(query, top_k, used)
    \/ \E user_query \in UserQueries : retrieve_quote(user_query)

SpecQuote == QuoteInit /\ [][QuoteNext]_vars

----------------------------------------------------------------------------
(* ConversationBuffer and the text-generation client *)

\* ConversationBuffer(max_turns=5): deque(maxlen=max_turns)
BufferMaxLen == 5

DequeAppend(buffer, msg) ==
    IF Len(buffer) >= BufferMaxLen THEN Append(Tail(buffer), msg) ELSE Append(buffer, msg)

\* add_interaction. A text is the sequence of its pieces.
AddInteraction(buffer, user_text, assistant_text) ==
    DequeAppend(DequeAppend(buffer, [role |-> "user", content |-> user_text]),
                [role |-> "assistant", content |-> assistant_text])

\* What generate_stream yields: the content chunks, and a "" chunk once a
\* timeout or transport failure ends the stream.
Streams == {<<"">>, <<"Keep ", "">>, <<"Keep ", "going.">>}

Accumulate_NothingAfterFailure(stream, i) ==
    IF \E j \in 1..Len(stream) : stream[j] = "" THEN <<>> ELSE stream

RECURSIVE Accumulate(_, _)
\* answer = ""; for chunk in stream: answer += chunk
Accumulate(stream, i) ==
    IF i > Len(stream) THEN <<>>
    ELSE (IF stream[i] = "" THEN <<>> ELSE <<stream[i]>>) \o Accumulate(stream, i + 1)

----------------------------------------------------------------------------
(* MemoryGatekeeper *)

\* The trigger phrases the texts of the model can match, as the regex reads
\* them: "remember", "from now on", "i prefer", "call me".
TriggerPhrases ==
    {<<"r", "e", "m", "e", "m", "b", "e", "r">>,
     <<"f", "r", "o", "m", " ", "n", "o", "w", " ", "o", "n">>,
     <<"i", " ", "p", "r", "e", "f", "e", "r">>,
     <<"c", "a", "l", "l", " ", "m", "e">>}

\* The phrase occurs in the characters at position i.
OccursAt(phrase, chars, i) ==
    /\ i + Len(phrase) - 1 <= Len(chars)
    /\ \A j \in 1..Len(phrase) : chars[i + j - 1] = phrase[j]

FastCheck_Always(user_text) == TRUE

\* _fast_check: trigger_regex.search(user_text), ignoring case.
FastCheck(user_text) ==
    LET chars == Lower(Chars(user_text))
    IN \E phrase \in TriggerPhrases : \E i \in 1..Len(chars) : OccursAt(phrase, chars, i)

\* An importance that is not a number (a JSON string or null): denominator 0.
NotANumber == <<0, 0>>
IsNumber(x) == x[2] # 0

\* What generate_response returns to the gatekeeper: "" after a failure of
\* the call, text that is not JSON, JSON that is not an object, and decision
\* objects (one wrapped in a markdown fence, one without a type).
Responses ==
    {[kind |-> "empty", fenced |-> FALSE],
     [kind |-> "text", fenced |-> FALSE],
     [kind |-> "list", fenced |-> TRUE],
     [kind |-> "object", fenced |-> TRUE, store |-> TRUE, summary |-> "dark mode",
      type |-> "preferences", importance |-> Rat(9, 10)],
     [kind |-> "object", fenced |-> FALSE, store |-> TRUE, summary |-> "dark mode",
      type |-> "preferences", importance |-> NotANumber],
     [kind |-> "object", fenced |-> FALSE, store |-> TRUE, summary |-> "plays chess",
      type |-> "hobbies", importance |-> Rat(1, 2)],
     [kind |-> "object", fenced |-> FALSE, store |-> TRUE, summary |-> "plays chess",
      importance |-> Rat(1, 2)],
     [kind |-> "object", fenced |-> FALSE, store |-> FALSE, summary |-> "dark mode",
      type |-> "preferences", importance |-> Rat(1, 2)]}

\* response.replace("```json", "").replace("```", "").strip()
CleanJSON(response) == [response EXCEPT !.fenced = FALSE]

\* What the try block raises before add_memory: json.loads on text that is
\* not JSON, decision.get on a value that is not an object.
ParseError(clean_json) ==
    CASE clean_json.kind \in {"empty", "text"} -> "JSONDecodeError"
      [] clean_json.kind = "list" -> "AttributeError"
      [] OTHER -> "none"

\* Where _save_domain can fail: the metadata file cannot be opened after the
\* index file has been written.
SaveFailures == {"none", "write_meta"}

\* _save_domain that fails at a write: what was written before stays written.
SaveDomainUpTo(d, dom, db, failure) ==
    CASE failure = "none" -> SaveDomain(d, dom, db)
      [] failure = "write_meta" -> [d EXCEPT ![dom].index = db.index]

Caught_OnlyJSONError(exception) == exception \in {"none", "JSONDecodeError"}

\* except Exception
Caught(exception) == TRUE

TargetDomain_DefaultsToPreferences(decision) ==
    IF "type" \in DOMAIN decision /\ decision.type \in DynamicDomains THEN decision.type
    ELSE "preferences"

\* domain = decision.get("type", "personal_context"), and any domain that is
\* not one of the three becomes personal_context.
TargetDomain(decision) ==
    IF "type" \in DOMAIN decision /\ decision.type \in DynamicDomains THEN decision.type
    ELSE "personal_context"

\* The body of evaluate_and_store after the classifier has answered: the
\* stores it leaves, the exception that reached the except clause, the
\* decision it parsed and the add_memory calls it made.
StoreDecision(dbs, dsk, response, failure, t) ==
    LET decision == CleanJSON(response)
        error == ParseError(decision)
    IN IF error # "none"
       THEN [databases |-> dbs, disk |-> dsk, exception |-> error, outcome |-> "unparsed",
             decision |-> <<>>, added |-> <<>>]
       ELSE IF ~decision.store
       THEN [databases |-> dbs, disk |-> dsk, exception |-> "none", outcome |-> "declined",
             decision |-> <<decision>>, added |-> <<>>]
       ELSE LET domain == TargetDomain(decision)
                new == AddMemoryStore(dbs[domain], decision.summary, decision.importance,
                                      domain, t)
            IN [databases |-> [dbs EXCEPT ![domain] = new],
                disk |-> SaveDomainUpTo(dsk, domain, new, failure),
                exception |-> IF failure = "none" THEN "none" ELSE "OSError",
                outcome |-> "stored",
                decision |-> <<decision>>,
                added |-> <<[domain_name |-> domain, text |-> decision.summary,
                             importance |-> decision.importance, mem_type |-> domain]>>]

\* A task asyncio.create_task made and that has not run yet: its text, where
\* it is, how it ended, the generate_response calls it has made, the decision
\* it parsed and the add_memory calls it has made.
NewTask(user_text) ==
    [text |-> user_text, status |-> "pending", outcome |-> "none", result |-> "none",
     llm |-> 0, decision |-> <<>>, added |-> <<>>]

\* The task runs up to its first suspension: the fast check, then the call
\* of the classifier.
StartTask(task) ==
    IF FastCheck(task.text)
    THEN [task EXCEPT !.status = "awaiting_llm", !.llm = @ + 1]
    ELSE [task EXCEPT !.status = "done", !.outcome = "dropped", !.result = "returned"]

\* asyncio.run closes its loop when run has returned: a task still waiting
\* is cancelled where it waits.
CancelTask(task) ==
    IF task.status = "done" THEN task ELSE [task EXCEPT !.status = "cancelled"]

\* The drivers of run: a loop that goes on after run has returned, and
\* asyncio.run(pipeline.run(user_input)) of the front end.
Drivers == {"event_loop", "asyncio_run"}

\* The task of a turn as run's caller leaves it.
ScheduledTask(user_text, driver) ==
    IF driver = "asyncio_run" THEN CancelTask(StartTask(NewTask(user_text)))
    ELSE NewTask(user_text)

----------------------------------------------------------------------------
(* CinematicPipeline: the graph and run *)

PipeQueries == {"hi", "I need a lift", "remember that I prefer dark mode"}

\* A record with one more field, or one field replaced.
With(rec, key, val) ==
    [k \in DOMAIN rec \cup {key} |-> IF k = key THEN val ELSE rec[k]]

\* The stage has run in this turn.
Staged(t, node) == With(t, "stages", Append(t.stages, node))

\* search_with_decay raises: a candidate that passes the floor carries a
\* timestamp and an importance that cannot be multiplied by 0.5.
SearchRaises(dbs, domain_name, query) ==
    /\ domain_name \in DOMAIN dbs
    /\ Len(dbs[domain_name].index) > 0
    /\ LET db == dbs[domain_name]
           hits == IndexSearch(db.index, Embed(query), Min(FetchWindow, Len(db.index)))
       IN \E i \in 1..Len(hits) :
             /\ hits[i].idx # -1
             /\ PassesFloor(BaseSimilarity(hits[i].dist))
             /\ "timestamp" \in DOMAIN db.data[hits[i].idx]
             /\ ~IsNumber(db.data[hits[i].idx].importance)

\* A stage's returned dict applied to the state: every key it holds is
\* written.
ApplyUpdate(st, update) ==
    [k \in DOMAIN st |-> IF k \in DOMAIN update THEN update[k] ELSE st[k]]

RECURSIVE ApplyUpdates(_, _, _)
\* The updates of the stages of one step, applied in their completion order.
ApplyUpdates(st, updates, i) ==
    IF i > Len(updates) THEN st
    ELSE ApplyUpdates(ApplyUpdate(st, updates[i].update), updates, i + 1)

FanOut == {"generate_answer", "retrieve_quote"}

Returned(node) == \E i \in 1..Len(returns) : returns[i].node = node

\* A parallel stage returns: when it is the last of the two, the step ends,
\* the returned states are merged and blend_answer is next.
StageReturns(node, update) ==
    LET all == Append(returns, [node |-> node, update |-> update])
    IN IF Len(all) = Cardinality(FanOut)
       THEN /\ state' = ApplyUpdates(state, all, 1)
            /\ returns' = <<>>
            /\ pc' = "blend"
       ELSE /\ returns' = all
            /\ UNCHANGED <<state, pc>>

\* run, up to the invocation of the graph.
run(user_query) ==
    /\ pc \in {"idle", "raised"}
    /\ quote_db.status = "ready"
    /\ turn.count < MaxTurns
    /\ state' = InitialState(user_query)
    /\ returns' = <<>>
    /\ llm_calls' = <<>>
    /\ turn' = [count |-> turn.count + 1, stages |-> <<>>]
    /\ pc' = "load_context"
    /\ UNCHANGED <<memVars, quoteVars, chat_buffer, gatekeeper_tasks, concVars>>

\* _node_load_context
\* _node_load_context. Nothing catches what a search raises: it leaves the
\* stage, the graph and run.
node_load_context ==
    /\ pc = "load_context"
    /\ IF \/ SearchRaises(databases, "preferences", state.user_query)
          \/ SearchRaises(databases, "personal_context", state.user_query)
       THEN /\ pc' = "raised"
            /\ turn' = With(Staged(turn, "load_context"), "error", "TypeError")
            /\ UNCHANGED state
       ELSE /\ LET prefs == SearchWithDecay(databases, "preferences", state.user_query, 2, now)
                   facts == SearchWithDecay(databases, "personal_context", state.user_query,
                                            2, now)
                   history == chat_buffer
               IN state' = [state EXCEPT !.preferences = prefs \o facts,
                                         !.chat_history = history]
            /\ pc' = "fanout"
            /\ turn' = Staged(turn, "load_context")
    /\ UNCHANGED <<memVars, quoteVars, returns, chat_buffer, llm_calls, gatekeeper_tasks, concVars>>

node_generate_answer_DropsHistory(stream) ==
    /\ pc = "fanout"
    /\ ~Returned("generate_answer")
    /\ LET answer == Accumulate(stream, 1)
       IN /\ StageReturns("generate_answer",
                          [state EXCEPT !.direct_answer = answer, !.chat_history = <<>>])
          /\ turn' = With(With(Staged(turn, "generate_answer"), "answer", answer),
                          "stream", stream)
    /\ llm_calls' = Append(llm_calls, "generate_answer")
    /\ UNCHANGED <<memVars, quoteVars, chat_buffer, gatekeeper_tasks, concVars>>

\* _node_generate_answer
node_generate_answer(stream) ==
    /\ pc = "fanout"
    /\ ~Returned("generate_answer")
    /\ LET answer == Accumulate(stream, 1)
       IN /\ StageReturns("generate_answer", [state EXCEPT !.direct_answer = answer])
          /\ turn' = With(With(Staged(turn, "generate_answer"), "answer", answer),
                          "stream", stream)
    /\ llm_calls' = Append(llm_calls, "generate_answer")
    /\ UNCHANGED <<memVars, quoteVars, chat_buffer, gatekeeper_tasks, concVars>>

\* _node_retrieve_quote
node_retrieve_quote ==
    /\ pc = "fanout"
    /\ ~Returned("retrieve_quote")
    /\ LET r == RetrieveQuote(quote_db, state.user_query, used_indices)
       IN /\ used_indices' = r.used_indices
          /\ accepted' = IF r.selected_quote = <<>> THEN accepted
                         ELSE Append(accepted, r.selected_quote[1].index)
          /\ lastQuote' = [op |-> "retrieve_quote", query |-> state.user_query,
                           used |-> used_indices, searched |-> r.searched,
                           candidates |-> r.candidates,
                           selected_quote |-> r.selected_quote]
          /\ StageReturns("retrieve_quote", [state EXCEPT !.selected_quote = r.selected_quote])
          /\ turn' = With(Staged(turn, "retrieve_quote"), "selected_quote", r.selected_quote)
    /\ UNCHANGED <<memVars, quote_db, quote_files, chat_buffer, llm_calls, gatekeeper_tasks, concVars>>

\* _node_blend_answer
node_blend_answer(stream) ==
    /\ pc = "blend"
    /\ IF state.selected_quote = <<>>
       THEN /\ stream = <<"">>
            /\ state' = [state EXCEPT !.final_response = state.direct_answer]
            /\ turn' = Staged(turn, "blend_answer")
            /\ UNCHANGED llm_calls
       ELSE /\ state' = [state EXCEPT !.final_response = Accumulate(stream, 1)]
            /\ turn' = With(Staged(turn, "blend_answer"), "blend_stream", stream)
            /\ llm_calls' = Append(llm_calls, "blend_answer")
    /\ pc' = "finish"
    /\ UNCHANGED <<memVars, quoteVars, returns, chat_buffer, gatekeeper_tasks, concVars>>

RunResult_AwaitsTask(result, task) ==
    IF task.status = "cancelled" THEN <<"CancelledError">> ELSE result.final_response

\* What run returns: str(result["final_response"]).
RunResult(result, task) == result.final_response

\* run, after the graph has ended: the turn is written to the conversation
\* window, the gatekeeper task is created and the response is returned to
\* the driver.
run_returns(driver) ==
    /\ pc = "finish"
    /\ LET task == ScheduledTask(state.user_query, driver)
           final == RunResult(state, task)
       IN /\ chat_buffer' = AddInteraction(chat_buffer, <<state.user_query>>, final)
          /\ gatekeeper_tasks' = Append(gatekeeper_tasks, task)
          /\ turn' = With(turn, "final", final)
          /\ interactions' = Append(interactions, <<<<state.user_query>>, final>>)
    /\ pc' = "idle"
    /\ UNCHANGED <<memVars, quoteVars, state, returns, llm_calls, calls>>

\* A gatekeeper task gets its first turn of the loop.
gatekeeper_starts(i) ==
    /\ i \in 1..Len(gatekeeper_tasks)
    /\ gatekeeper_tasks[i].status = "pending"
    /\ gatekeeper_tasks' = [gatekeeper_tasks EXCEPT ![i] = StartTask(@)]
    /\ UNCHANGED <<memVars, quoteVars, pc, state, returns, chat_buffer, llm_calls, turn, concVars>>

\* evaluate_and_store, from the answer of the classifier to its return.
evaluate_and_store(i, response, failure) ==
    /\ i \in 1..Len(gatekeeper_tasks)
    /\ gatekeeper_tasks[i].status = "awaiting_llm"
    /\ LET d == StoreDecision(databases, disk, response, failure, now)
       IN /\ failure # "none" => d.outcome = "stored"
          /\ databases' = d.databases
          /\ disk' = d.disk
          /\ gatekeeper_tasks' =
                [gatekeeper_tasks EXCEPT ![i] =
                    [@ EXCEPT !.status = "done", !.outcome = d.outcome,
                              !.result = IF Caught(d.exception) THEN "returned"
                                         ELSE d.exception,
                              !.decision = d.decision, !.added = d.added]]
    /\ UNCHANGED <<now, startedEmpty, adds, last, quoteVars, pc, state, returns, chat_buffer,
                   llm_calls, turn, concVars>>

\* The pipeline over a loaded retriever and a memory with one saved
\* preference.
PipeInit ==
    /\ quote_files = [json |-> QuoteCorpus, index_exists |-> FALSE, index |-> <<>>]
    /\ quote_db = [status |-> "unloaded"]
    /\ used_indices = <<>>
    /\ accepted = <<>>
    /\ lastQuote = NoCall
    /\ databases = [dom \in Domains |->
                      IF dom \in StaticDomains THEN StaticStore
                      ELSE IF dom = "preferences" THEN SavedStore(dom)
                      ELSE EmptyStore]
    /\ disk = databases
    /\ startedEmpty = DynamicDomains \ {"preferences"}
    /\ now = 0
    /\ adds = 0
    /\ last = NoCall
    /\ PipeIdle
    /\ NoOverlap

PipeNext ==
    \/ QuoteDBManager_init
    \/ \E user_query \in PipeQueries : run(user_query)
    \/ node_load_context
    \/ \E stream \in Streams : node_generate_answer(stream)
    \/ node_retrieve_quote
    \/ \E stream \in Streams : node_blend_answer(stream)
    \/ \E driver \in Drivers : run_returns(driver)
    \/ \E i \in 1..MaxTurns : gatekeeper_starts(i)
    \/ \E i \in 1..MaxTurns, response \in Responses, failure \in SaveFailures :
           evaluate_and_store(i, response, failure)

SpecPipe == PipeInit /\ [][PipeNext]_vars

\* A running event loop gives every ready task its turn: a gatekeeper task
\* that has not been cancelled goes on.
GatekeeperStep ==
    \/ \E i \in 1..MaxTurns : gatekeeper_starts(i)
    \/ \E i \in 1..MaxTurns, response \in Responses, failure \in SaveFailures :
           evaluate_and_store(i, response, failure)

SpecPipeLive == PipeInit /\ [][PipeNext]_vars /\ WF_vars(GatekeeperStep)

----------------------------------------------------------------------------
(* Two callers of add_memory on one domain at a time. A thread can be     *)
(* suspended between any two statements of add_memory; nothing in it      *)
(* takes a lock.                                                          *)

Other(c) == CHOOSE o \in Callers : o # c

InFlight(c) == calls[c].op # "none" /\ calls[c].pc # "done"

\* add_memory up to the dedup decision: the vector of the text and the
\* search of the index as it is now.
add_memory_begins(c, dom, text, importance) ==
    /\ calls[c].op = "none"
    /\ LET match_idx == MatchIdx(databases[dom], Embed(text))
       IN calls' = [calls EXCEPT ![c] =
                      [op |-> "add_memory", domain |-> dom, text |-> text,
                       importance |-> importance, match_idx |-> match_idx,
                       pc |-> IF match_idx # 0 THEN "write" ELSE "index_add",
                       base |-> IF calls[Other(c)].op = "add_memory"
                                THEN calls[Other(c)].base ELSE databases[dom]]]
    /\ UNCHANGED <<memVars, quoteVars, pipeVars, interactions>>

FrameObj(f) == MemoryObj(f.text, now, f.importance, f.domain)

\* db["data"][match_idx] = {...}
add_memory_writes(c) ==
    /\ calls[c].op = "add_memory" /\ calls[c].pc = "write"
    /\ databases' = [databases EXCEPT ![calls[c].domain].data[calls[c].match_idx] =
                                          FrameObj(calls[c])]
    /\ calls' = [calls EXCEPT ![c].pc = "rebuild"]
    /\ UNCHANGED <<disk, now, startedEmpty, adds, last, quoteVars, pipeVars, interactions>>

\* new_index over the texts db["data"] holds now
add_memory_rebuilds(c) ==
    /\ calls[c].op = "add_memory" /\ calls[c].pc = "rebuild"
    /\ calls' = [calls EXCEPT ![c] =
                    With([@ EXCEPT !.pc = "swap"], "new_index",
                         RebuildIndex(databases[calls[c].domain].data))]
    /\ UNCHANGED <<memVars, quoteVars, pipeVars, interactions>>

\* db["index"] = new_index
add_memory_swaps(c) ==
    /\ calls[c].op = "add_memory" /\ calls[c].pc = "swap"
    /\ databases' = [databases EXCEPT ![calls[c].domain].index = calls[c].new_index]
    /\ calls' = [calls EXCEPT ![c].pc = "save"]
    /\ UNCHANGED <<disk, now, startedEmpty, adds, last, quoteVars, pipeVars, interactions>>

\* db["index"].add(embedding)
add_memory_adds_vector(c) ==
    /\ calls[c].op = "add_memory" /\ calls[c].pc = "index_add"
    /\ databases' = [databases EXCEPT ![calls[c].domain].index =
                                          Append(@, Embed(calls[c].text))]
    /\ calls' = [calls EXCEPT ![c].pc = "data_append"]
    /\ UNCHANGED <<disk, now, startedEmpty, adds, last, quoteVars, pipeVars, interactions>>

\* db["data"].append(memory_obj)
add_memory_appends(c) ==
    /\ calls[c].op = "add_memory" /\ calls[c].pc = "data_append"
    /\ databases' = [databases EXCEPT ![calls[c].domain].data = Append(@, FrameObj(calls[c]))]
    /\ calls' = [calls EXCEPT ![c].pc = "save"]
    /\ UNCHANGED <<disk, now, startedEmpty, adds, last, quoteVars, pipeVars, interactions>>

\* _save_domain, and the return
add_memory_saves(c) ==
    /\ calls[c].op = "add_memory" /\ calls[c].pc = "save"
    /\ disk' = SaveDomain(disk, calls[c].domain, databases[calls[c].domain])
    /\ calls' = [calls EXCEPT ![c].pc = "done"]
    /\ UNCHANGED <<databases, now, startedEmpty, adds, last, quoteVars, pipeVars, interactions>>

AddsNext ==
    \/ \E c \in Callers, dom \in AddDomains, text \in Texts, importance \in Importances :
          add_memory_begins(c, dom, text, importance)
    \/ \E c \in Callers : add_memory_writes(c)
    \/ \E c \in Callers : add_memory_rebuilds(c)
    \/ \E c \in Callers : add_memory_swaps(c)
    \/ \E c \in Callers : add_memory_adds_vector(c)
    \/ \E c \in Callers : add_memory_appends(c)
    \/ \E c \in Callers : add_memory_saves(c)

SpecAdds == MemInit /\ [][AddsNext]_vars

----------------------------------------------------------------------------
(* Two overlapping turns in _node_retrieve_quote. The node awaits           *)
(* search_quote, which runs in a worker thread; the other turn can run      *)
(* while it waits.                                                          *)

\* The node up to the await: a short query returns at once, any other
\* starts the search.
retrieve_quote_begins(c, user_query) ==
    /\ quote_db.status = "ready"
    /\ calls[c].op = "none"
    /\ calls' = [calls EXCEPT ![c] =
                    [op |-> "retrieve_quote", query |-> user_query,
                     pc |-> IF TooShort(Split(Lower(Chars(user_query))))
                            THEN "done" ELSE "searching",
                     candidates |-> <<>>, selected_quote |-> <<>>]]
    /\ UNCHANGED <<memVars, quoteVars, pipeVars, interactions>>

\* search_quote in its thread, with the ring as it is now.
retrieve_quote_searches(c) ==
    /\ calls[c].op = "retrieve_quote" /\ calls[c].pc = "searching"
    /\ calls' = [calls EXCEPT ![c].pc = "found",
                              ![c].candidates =
                                  SearchQuote(quote_db, calls[c].query, RetrieveTopK,
                                              used_indices)]
    /\ UNCHANGED <<memVars, quoteVars, pipeVars, interactions>>

\* The node after the await: the gate, and the ring update of an accepted
\* quote.
retrieve_quote_resumes(c) ==
    /\ calls[c].op = "retrieve_quote" /\ calls[c].pc = "found"
    /\ LET candidates == calls[c].candidates
           accept == candidates # <<>> /\ ~RLess(candidates[1].composite, MIN_SCORE)
       IN IF accept
          THEN /\ used_indices' = PushUsed(used_indices, candidates[1].index)
               /\ accepted' = Append(accepted, candidates[1].index)
               /\ calls' = [calls EXCEPT ![c].pc = "done",
                                         ![c].selected_quote = <<candidates[1]>>]
          ELSE /\ calls' = [calls EXCEPT ![c].pc = "done"]
               /\ UNCHANGED <<used_indices, accepted>>
    /\ UNCHANGED <<memVars, quote_db, quote_files, lastQuote, pipeVars, interactions>>

\* The turns before the overlap come one after another.
NoTurnInFlight == \A c \in Callers : calls[c].op = "none"

TurnsInit ==
    /\ quote_files = [json |-> QuoteCorpus, index_exists |-> FALSE, index |-> <<>>]
    /\ quote_db = [status |-> "unloaded"]
    /\ used_indices = <<>>
    /\ accepted = <<>>
    /\ lastQuote = NoCall
    /\ databases = [dom \in Domains |-> IF dom \in StaticDomains THEN StaticStore ELSE EmptyStore]
    /\ disk = databases
    /\ startedEmpty = DynamicDomains
    /\ now = 0
    /\ adds = 0
    /\ last = NoCall
    /\ PipeIdle
    /\ NoOverlap

TurnsNext ==
    \/ QuoteDBManager_init
    \/ \E user_query \in UserQueries : NoTurnInFlight /\ retrieve_quote(user_query)
    \/ \E c \in Callers, user_query \in UserQueries : retrieve_quote_begins(c, user_query)
    \/ \E c \in Callers : retrieve_quote_searches(c)
    \/ \E c \in Callers : retrieve_quote_resumes(c)

SpecTurns == TurnsInit /\ [][TurnsNext]_vars

----------------------------------------------------------------------------
(* ConversationBuffer on its own *)

UserTexts == {<<"hi">>, <<"I need a lift">>}
AssistantTexts == {<<>>, <<"Keep ", "going.">>}

\* get_history: list(self.buffer)
GetHistory(buffer) == buffer

add_interaction(user_text, assistant_text) ==
    /\ Len(interactions) < MaxInteractions
    /\ chat_buffer' = AddInteraction(chat_buffer, user_text, assistant_text)
    /\ interactions' = Append(interactions, <<user_text, assistant_text>>)
    /\ UNCHANGED <<memVars, quoteVars, pc, state, returns, llm_calls, gatekeeper_tasks, turn,
                   calls>>

\* clear
clear ==
    /\ chat_buffer # <<>>
    /\ chat_buffer' = <<>>
    /\ interactions' = <<>>
    /\ UNCHANGED <<memVars, quoteVars, pc, state, returns, llm_calls, gatekeeper_tasks, turn,
                   calls>>

\* A new buffer beside an idle pipeline.
BufferInit == TurnsInit

BufferNext ==
    \/ \E user_text \in UserTexts, assistant_text \in AssistantTexts :
          add_interaction(user_text, assistant_text)
    \/ clear

SpecBuffer == BufferInit /\ [][BufferNext]_vars

----------------------------------------------------------------------------
(* Claims about the memory engine, checked under SpecMem *)

Positions(seq) == 1..Len(seq)

IsNearest(index, emb, i) ==
    \A j \in Positions(index) : RLeq(L2Dist(index[i], emb), L2Dist(index[j], emb))

\* C2: add_memory on a domain whose nearest stored record lies strictly below
\* the identity threshold (1.0) from the new text's embedding leaves the
\* record count unchanged and replaces exactly that nearest record's text,
\* timestamp (now), importance and type; every other record keeps its content
\* and its position.
C2_OverwriteReplacesNearestOnly ==
    [][(adds' = adds + 1) =>
        LET dom == last'.domain
            old == databases[dom]
            new == databases'[dom]
            emb == Embed(last'.text)
        IN (\E i \in Positions(old.index) :
                RLess(L2Dist(old.index[i], emb), Rat(1, 1)))
           => /\ Len(new.data) = Len(old.data)
              /\ \E m \in Positions(old.index) :
                    /\ IsNearest(old.index, emb, m)
                    /\ new.data[m] = [text |-> last'.text, timestamp |-> now,
                                      importance |-> last'.importance,
                                      type |-> last'.type]
                    /\ \A i \in Positions(old.data) : i # m => new.data[i] = old.data[i]
    ]_vars

\* An overwrite of the second record of a
\* two-record store, after time has passed.
C2_Witness ==
    /\ last.op = "overwrite"
    /\ last.match_idx = 2
    /\ now > 0
    /\ Len(databases[last.domain].data) = 2

\* C3: after any sequence of add_memory calls on a domain that starts empty,
\* no two distinct records of the domain have embeddings within the identity
\* threshold (distance below 1.0) of each other.
C3_AtMostOneEntryPerMeaning ==
    \A dom \in startedEmpty :
        \A i, j \in Positions(databases[dom].data) :
            i # j => ~RLess(L2Dist(Embed(databases[dom].data[i].text),
                                   Embed(databases[dom].data[j].text)), Rat(1, 1))

\* The base similarity of a returned record to the query of the call.
SimilarityTo(query, obj) == BaseSimilarity(L2Dist(Embed(obj.text), Embed(query)))

\* C4: search_with_decay never returns a record whose base similarity
\* s = 1/(1+d) to the query is below 0.40, whatever its importance, age, kind
\* and whatever top_k is.
C4_RelevanceFloor ==
    last.op = "search" =>
        \A i \in Positions(last.results) :
            ~RLess(SimilarityTo(last.query, last.results[i]), Rat(40, 100))

\* A search of a dynamic domain that returned a record and left out a record
\* below the floor, of the highest importance and age 0, although top_k had
\* room for it.
C4_Witness ==
    /\ last.op = "search"
    /\ Len(last.results) >= 1
    /\ last.domain \in AddDomains
    /\ Len(last.results) < last.top_k
    /\ \E i \in Positions(databases[last.domain].data) :
          LET obj == databases[last.domain].data[i]
          IN /\ RLess(SimilarityTo(last.query, obj), Rat(40, 100))
             /\ obj.importance = Rat(1, 1)
             /\ obj.timestamp = now

IsDynamic(obj) == "timestamp" \in DOMAIN obj

\* The final score the decay formula s + 0.5*importance + s/(1+age_in_days)
\* gives a dynamic record at the present time.
ScoreNow(query, obj) == FinalScore(SimilarityTo(query, obj), obj, now)

SameSimilarityAndImportance(query, a, b) ==
    /\ IsDynamic(a) /\ IsDynamic(b)
    /\ REq(SimilarityTo(query, a), SimilarityTo(query, b))
    /\ REq(a.importance, b.importance)

\* C5: for any two dynamic records with the same base similarity and the same
\* importance, the record with the smaller age gets a final score greater than
\* or equal to the older record's, and is never ranked after it on score.
C5_DecayMonotone ==
    /\ \A dom \in Domains, query \in Queries :
          \A i, j \in Positions(databases[dom].data) :
              LET a == databases[dom].data[i]
                  b == databases[dom].data[j]
              IN (SameSimilarityAndImportance(query, a, b) /\ now - a.timestamp <= now - b.timestamp)
                 => RLeq(ScoreNow(query, b), ScoreNow(query, a))
    /\ last.op = "search" =>
          \A i, j \in Positions(last.results) :
              (i < j /\ SameSimilarityAndImportance(last.query, last.results[i], last.results[j]))
              => now - last.results[i].timestamp <= now - last.results[j].timestamp

\* A search returned two dynamic records of equal similarity and importance
\* and different ages, the younger one stored after the older one.
C5_Witness ==
    /\ last.op = "search"
    /\ \E i, j \in Positions(last.results) :
          /\ i < j
          /\ SameSimilarityAndImportance(last.query, last.results[i], last.results[j])
          /\ last.results[i].timestamp > last.results[j].timestamp

----------------------------------------------------------------------------
(* Claims about the quote retriever, checked under SpecQuote *)

\* The number of whitespace-delimited tokens of a text: the positions where a
\* token starts.
TokenCount(text) ==
    LET c == Chars(text)
    IN Cardinality({i \in 1..Len(c) :
                       c[i] \notin Whitespace /\ (i = 1 \/ c[i - 1] \in Whitespace)})

\* C6 (as stated): search_quote called with a query of fewer than 4
\* whitespace-delimited tokens returns an empty list, for every corpus and
\* every set of excluded positions.
C6_SearchQuoteShortQueryIsEmpty ==
    (lastQuote.op = "search_quote" /\ TokenCount(lastQuote.query) < 4)
        => lastQuote.results = <<>>

\* C6 (amended): the retrieve_quote node, given a query of fewer than 4
\* whitespace-delimited tokens, selects no quote, does not call search_quote
\* and leaves the anti-repetition ring unchanged.
C6_RetrieveQuoteShortQuerySkips ==
    (lastQuote.op = "retrieve_quote" /\ TokenCount(lastQuote.query) < 4)
        => /\ lastQuote.selected_quote = <<>>
           /\ ~lastQuote.searched
           /\ used_indices = lastQuote.used

\* The node skipped a three-token query whose best quote would have passed
\* the acceptance gate.
C6_Witness ==
    /\ lastQuote.op = "retrieve_quote"
    /\ TokenCount(lastQuote.query) = 3
    /\ LET found == SearchQuote(quote_db, lastQuote.query, 3, used_indices)
       IN found # <<>> /\ RLeq(Rat(25, 100), found[1].composite)

\* C7: search_quote on an empty quote corpus returns an empty list and does
\* not fail: once the retriever has been constructed over an empty corpus it
\* is ready and every search returns the empty list.
C7_EmptyCorpusSearchIsEmpty ==
    (quote_db.status # "unloaded" /\ quote_files.json = <<>>)
        => /\ quote_db.status = "ready"
           /\ \A query \in UserQueries, top_k \in QuoteTopKs :
                 SearchQuote(quote_db, query, top_k, <<>>) = <<>>

\* 0.70*semantic_sim + 0.30*emotion_sim of a quote for a query, both signals
\* clipped below at 0.
ExactComposite(query, q) ==
    LET cos == Cosine(query, CompoundDoc(q))
        emo == EmotionCosine(query, EmotionOf(q))
        sem == IF cos[1] < 0 THEN Rat(0, 1) ELSE cos
        emc == IF emo[1] < 0 THEN Rat(0, 1) ELSE emo
    IN Reduce(<<7 * sem[1] * emc[2] + 3 * emc[1] * sem[2], 10 * sem[2] * emc[2]>>)

LastCandidates ==
    IF lastQuote.op = "search_quote" THEN lastQuote.results
    ELSE IF lastQuote.op = "retrieve_quote" THEN lastQuote.candidates
    ELSE <<>>

IsRounded3(v, x) ==
    LET diff == v[1] * x[2] - x[1] * 1000
    IN /\ v[2] = 1000
       /\ 2 * (IF diff < 0 THEN -diff ELSE diff) <= x[2]

C9_NoRepeatWithinFiveAccepts ==
    \A i, j \in Positions(accepted) :
        (i < j /\ j - i <= 5) => accepted[i] # accepted[j]

\* Seven quotes were accepted and the seventh is the first one again, right
\* after five others.
C9_Witness ==
    /\ Len(accepted) >= 7
    /\ accepted[7] = accepted[1]

----------------------------------------------------------------------------
(* Claims about the pipeline, checked under SpecPipe *)

\* C10: whenever retrieve_quote accepts no quote in a turn, run returns
\* exactly the text that generate_answer accumulated in that turn, and blend
\* makes no call to the text-generation collaborator.
C10_NoQuoteReturnsDirectAnswer ==
    ("final" \in DOMAIN turn /\ turn.selected_quote = <<>>)
        => /\ turn.final = turn.answer
           /\ ~InSeq("blend_answer", llm_calls)

\* The i-th turn's user text matched a trigger pattern and its gatekeeper
\* task has been created.
TaskTriggered(i) ==
    /\ i <= Len(gatekeeper_tasks)
    /\ FastCheck(gatekeeper_tasks[i].text)

\* The i-th gatekeeper task has run to completion, and has added the fact
\* if the classifier said to store it.
TaskCompleted(i) ==
    /\ i <= Len(gatekeeper_tasks)
    /\ gatekeeper_tasks[i].status = "done"
    /\ gatekeeper_tasks[i].outcome \in {"stored", "declined", "unparsed"}

\* C11: whenever run is called with a user text that matches a gatekeeper
\* trigger pattern, the detached gatekeeper task eventually runs to
\* completion (and, the classifier returning store:true, adds the fact to
\* the memory domain), for every driver of run, the front end's
\* asyncio.run included.
C11_TriggeredTaskCompletes ==
    \A i \in 1..MaxTurns : TaskTriggered(i) ~> TaskCompleted(i)

\* The last gatekeeper task created.
LastTask == gatekeeper_tasks[Len(gatekeeper_tasks)]

\* A step of a gatekeeper task: the tasks change and the run stays where it
\* is.
IsGatekeeperStep == gatekeeper_tasks' # gatekeeper_tasks /\ pc' = pc

\* C12: run returns its response without waiting for the gatekeeper: once
\* blend has produced the final response run can return, it returns that
\* response whatever becomes of the gatekeeper task, and no step of a
\* gatekeeper task changes what run returned or where a run is.
C12_RunReturnsWithoutGatekeeper ==
    [][/\ pc = "finish" => ENABLED (\E driver \in Drivers : run_returns(driver))
       /\ (pc = "finish" /\ pc' = "idle") =>
             /\ turn'.final = state.final_response
             /\ LastTask'.text = state.user_query
       /\ IsGatekeeperStep => (turn' = turn /\ state' = state /\ chat_buffer' = chat_buffer)
      ]_vars

\* Two turns have returned a response; the task of the first has completed
\* after its turn returned and the task of the second was cancelled.
C12_Witness ==
    /\ pc = "idle"
    /\ Len(gatekeeper_tasks) = 2
    /\ gatekeeper_tasks[1].outcome = "stored"
    /\ gatekeeper_tasks[2].status = "cancelled"
    /\ "final" \in DOMAIN turn
    /\ turn.final # <<>>

\* C13: for either completion order of generate_answer and retrieve_quote,
\* the state blend receives holds the direct_answer generate_answer wrote
\* and the selected_quote retrieve_quote wrote.
C13_ConvergenceKeepsBothWrites ==
    pc = "blend" =>
        /\ state.direct_answer = turn.answer
        /\ state.selected_quote = turn.selected_quote

\* The orders in which the four stages of a run can execute.
DagOrders ==
    {<<"load_context", "generate_answer", "retrieve_quote", "blend_answer">>,
     <<"load_context", "retrieve_quote", "generate_answer", "blend_answer">>}

IsPrefix(a, b) == Len(a) <= Len(b) /\ \A i \in 1..Len(a) : a[i] = b[i]

\* The run that was started has ended.
RunEnded == turn.count > 0 /\ pc \in {"idle", "raised"}

\* C14: in every run the four stages each execute exactly once and in DAG
\* order, and the run then terminates: the stages executed so far are the
\* beginning of a DAG order, and all of one when the run has ended.
C14_StagesOnceInDagOrder ==
    /\ turn.count > 0 => \E order \in DagOrders : IsPrefix(turn.stages, order)
    /\ RunEnded => turn.stages \in DagOrders

\* In a run that returns a response the four stages have each executed once
\* and in DAG order, and no stage is ever re-entered.
StagesInDagOrderWhenReturned ==
    /\ turn.count > 0 => \E order \in DagOrders : IsPrefix(turn.stages, order)
    /\ (turn.count > 0 /\ pc = "idle") => turn.stages \in DagOrders

\* The streaming call of generate_answer timed out or failed in this turn.
GenerationFailed ==
    /\ "stream" \in DOMAIN turn
    /\ \E i \in 1..Len(turn.stream) : turn.stream[i] = ""

\* The chunks of content the stream yielded before it failed.
ContentBeforeFailure(stream) == SelectSeq(stream, LAMBDA chunk : chunk # "")

C16_SearchErrorsContained ==
    pc # "raised"

\* C17: evaluate_and_store never raises to its caller, whatever the
\* classifier returned and whether or not add_memory failed; when the output
\* cannot be parsed, no memory domain is modified.
C17_GatekeeperNeverRaises ==
    [][\A i \in 1..Len(gatekeeper_tasks) :
          (gatekeeper_tasks[i].status # "done" /\ gatekeeper_tasks'[i].status = "done")
              => /\ gatekeeper_tasks'[i].result = "returned"
                 /\ gatekeeper_tasks'[i].outcome = "unparsed"
                       => (databases' = databases /\ disk' = disk)
      ]_vars

\* One task has dropped an answer it could not parse and another has
\* returned after add_memory failed to persist.
C17_Witness ==
    /\ Len(gatekeeper_tasks) = 2
    /\ gatekeeper_tasks[1].outcome = "unparsed"
    /\ gatekeeper_tasks[2].outcome = "stored"
    /\ gatekeeper_tasks[2].result = "returned"
    /\ disk # databases

----------------------------------------------------------------------------
(* Claims about overlapping callers *)

\* The store after the call of caller a and then the call of caller b, one
\* after the other, from the store both found.
OneAfterTheOther(a, b) ==
    LET first == AddMemoryStore(calls[a].base, calls[a].text, calls[a].importance,
                                calls[a].domain, now)
    IN AddMemoryStore(first, calls[b].text, calls[b].importance, calls[b].domain, now)

BothAddsDone == \A c \in Callers : calls[c].op = "add_memory" /\ calls[c].pc = "done"

\* C18: concurrent add_memory calls against the same domain are serialized:
\* for any interleaving of two calls the resulting store equals the result
\* of the two calls in one of the two sequential orders, and the index count
\* equals the metadata length.
C18_ConcurrentAddsSerialized ==
    BothAddsDone =>
        LET db == databases[calls[1].domain]
        IN /\ db \in {OneAfterTheOther(1, 2), OneAfterTheOther(2, 1)}
           /\ Len(db.index) = Len(db.data)

NoDuplicate(seq) == \A i, j \in 1..Len(seq) : i # j => seq[i] # seq[j]

\* Both overlapping turns have accepted a quote.
BothTurnsAccepted ==
    \A c \in Callers : /\ calls[c].op = "retrieve_quote"
                       /\ calls[c].pc = "done"
                       /\ calls[c].selected_quote # <<>>

\* C19: when two run invocations on the same pipeline overlap, the two
\* turns never both accept the same quote position, and the ring never
\* holds more than 5 entries or a duplicated position.
C19_RingProtectedUnderOverlap ==
    /\ Len(used_indices) <= RingCapacity
    /\ NoDuplicate(used_indices)
    /\ BothTurnsAccepted => calls[1].selected_quote[1].index # calls[2].selected_quote[1].index

----------------------------------------------------------------------------
(* Claims about the conversation window, checked under SpecBuffer *)

RECURSIVE Exchanges(_, _)
\* The user and assistant messages of the exchanges from the i-th on.
Exchanges(pairs, i) ==
    IF i > Len(pairs) THEN <<>>
    ELSE <<[role |-> "user", content |-> pairs[i][1]],
           [role |-> "assistant", content |-> pairs[i][2]]>> \o Exchanges(pairs, i + 1)

\* C20: ConversationBuffer(max_turns=N).get_history() is bounded to the most
\* recent N exchanges: after any sequence of add_interaction calls it
\* returns the last min(N, number of calls) user/assistant pairs in full and
\* in order.
C20_HistoryIsLastNExchanges ==
    LET n == Min(BufferMaxLen, Len(interactions))
    IN GetHistory(chat_buffer) = Exchanges(interactions, Len(interactions) - n + 1)

----------------------------------------------------------------------------
(* Further claims about the memory engine, checked under SpecMem *)

\* The index and the metadata of a store correspond position by position.
InOrder(db) ==
    /\ Len(db.index) = Len(db.data)
    /\ \A i \in Positions(db.data) : db.index[i] = Embed(db.data[i].text)

C22_AppendWhenNoNearRecord ==
    [][(adds' = adds + 1) =>
        LET dom == last'.domain
            old == databases[dom]
            new == databases'[dom]
            emb == Embed(last'.text)
        IN (\A i \in Positions(old.index) :
                ~RLess(L2Dist(old.index[i], emb), Rat(1, 1)))
           => new.data = Append(old.data,
                                [text |-> last'.text, timestamp |-> now,
                                 importance |-> last'.importance, type |-> last'.type])
    ]_vars

\* A record was appended, after time had passed, to a store whose nearest
\* record is at distance exactly 1.0 from it.
C22_Witness ==
    /\ last.op = "append"
    /\ last.text = "light mode"
    /\ now > 0
    /\ LET data == databases[last.domain].data
       IN /\ Len(data) >= 2
          /\ data[Len(data)].text = "light mode"
          /\ data[Len(data)].timestamp = now
          /\ \E i \in 1..(Len(data) - 1) : data[i].text = "dark mode"
          /\ \A i \in 1..(Len(data) - 1) :
                ~RLess(L2Dist(Embed(data[i].text), Embed("light mode")), Rat(1, 1))

\* C23: whenever add_memory returns normally, on the append path and on the
\* overwrite path alike, the persisted metadata of the domain equals its
\* in-memory metadata list and the persisted index holds the same number of
\* vectors as the in-memory index.
C23_PersistedAfterEitherPath ==
    [][(adds' = adds + 1) =>
        LET dom == last'.domain
        IN /\ disk'[dom].data = databases'[dom].data
           /\ Len(disk'[dom].index) = Len(databases'[dom].index)
    ]_vars

\* An overwrite has just been persisted over what an earlier append had
\* persisted: the file holds the two records of the store, the overwritten
\* one with the new text.
C23_Witness ==
    /\ last.op = "overwrite"
    /\ adds >= 2
    /\ Len(disk[last.domain].data) = 2
    /\ disk[last.domain].data[last.match_idx].text = last.text
    /\ disk[last.domain].data[last.match_idx].timestamp = now
    /\ now > 0
    /\ disk[last.domain] = databases[last.domain]

\* The final score as the formula states it: s = 1/(1+d) for a static record
\* and s + 0.5*importance + s/(1+age_in_days) for a dynamic one, the age
\* counted from the record's timestamp to the present time.
StatedScore(query, obj) ==
    LET d == L2Dist(Embed(obj.text), Embed(query))
        s == Rat(d[2], d[2] + d[1])
    IN IF ~IsDynamic(obj) THEN s
       ELSE LET age == now - obj.timestamp
                recency == Rat(s[1] * TicksPerDay, s[2] * (TicksPerDay + age))
                weighted == Rat(obj.importance[1], obj.importance[2] * 2)
            IN RAdd(RAdd(s, weighted), recency)

\* C24: search_with_decay returns at most top_k records, ordered by
\* non-increasing final score, where the final score of a static record is
\* its base similarity s and that of a dynamic record is
\* s + 0.5*importance + s/(1+age_in_days); no record that passed the
\* relevance floor is left out in favour of a lower-scoring one.
C24_TopKByFinalScore ==
    (last.op = "search" /\ last.domain \in DOMAIN databases) =>
        LET data == databases[last.domain].data
            results == last.results
        IN /\ Len(results) <= last.top_k
           /\ \A i \in Positions(results) :
                 \E p \in Positions(data) : data[p] = results[i]
           /\ \A i, j \in Positions(results) :
                 i < j => RLeq(StatedScore(last.query, results[j]),
                               StatedScore(last.query, results[i]))
           /\ \A p \in Positions(data) :
                 (/\ ~RLess(SimilarityTo(last.query, data[p]), Rat(40, 100))
                  /\ ~InSeq(data[p], results))
                 => /\ Len(results) = last.top_k
                    /\ \A i \in Positions(results) :
                          RLeq(StatedScore(last.query, data[p]),
                               StatedScore(last.query, results[i]))

\* A search with top_k = 1 of a dynamic domain returned a record stored
\* after another one that passed the floor with the same similarity and a
\* strictly lower final score.
C24_Witness ==
    /\ last.op = "search"
    /\ last.domain \in AddDomains
    /\ last.top_k = 1
    /\ Len(last.results) = 1
    /\ LET data == databases[last.domain].data
       IN \E p, q \in Positions(data) :
             /\ p < q
             /\ data[q] = last.results[1]
             /\ ~RLess(SimilarityTo(last.query, data[p]), Rat(40, 100))
             /\ RLess(StatedScore(last.query, data[p]), StatedScore(last.query, data[q]))

----------------------------------------------------------------------------
(* Further claims about the retrieve_quote node, checked under SpecQuote *)

\* What search_quote returns for the query and the ring of the last call of
\* the node.
FoundForLastQuery ==
    SearchQuote(quote_db, lastQuote.query, RetrieveTopK, lastQuote.used)

\* C25: retrieve_quote sets selected_quote only to the top-ranked candidate
\* of search_quote and only when that candidate's composite is at least
\* 0.25; when the best composite is below 0.25, selected_quote is absent and
\* the anti-repetition ring is left unchanged.
C25_OnlyBestAtOrAboveGate ==
    lastQuote.op = "retrieve_quote" =>
        /\ lastQuote.selected_quote # <<>> =>
              /\ lastQuote.searched
              /\ FoundForLastQuery # <<>>
              /\ lastQuote.selected_quote = <<FoundForLastQuery[1]>>
              /\ \A i \in Positions(FoundForLastQuery) :
                    RLeq(FoundForLastQuery[i].composite, FoundForLastQuery[1].composite)
              /\ RLeq(Rat(25, 100), lastQuote.selected_quote[1].composite)
        /\ (/\ lastQuote.searched
            /\ FoundForLastQuery # <<>>
            /\ RLess(FoundForLastQuery[1].composite, Rat(25, 100)))
           => /\ lastQuote.selected_quote = <<>>
              /\ used_indices = lastQuote.used

\* With an earlier accepted quote in the ring, the best remaining candidate
\* of a long enough query has a composite between 0.20 and 0.25 and is not
\* selected.
C25_Witness ==
    /\ lastQuote.op = "retrieve_quote"
    /\ lastQuote.searched
    /\ lastQuote.used # <<>>
    /\ FoundForLastQuery # <<>>
    /\ RLess(FoundForLastQuery[1].composite, Rat(25, 100))
    /\ RLeq(Rat(20, 100), FoundForLastQuery[1].composite)
    /\ lastQuote.selected_quote = <<>>
    /\ used_indices = lastQuote.used

\* The last n entries of a sequence.
LastN(seq, n) == SubSeq(seq, Len(seq) - n + 1, Len(seq))

\* C26: after any sequence of turns run one after another, the
\* anti-repetition ring holds exactly the positions of the most recent
\* min(5, number of accepted quotes) accepted quotes in acceptance order; it
\* changes only when a quote is accepted, never exceeds 5 entries and evicts
\* the oldest entry first.
C26_RingIsLastFiveAccepted ==
    /\ Len(used_indices) <= 5
    /\ used_indices = LastN(accepted, Min(5, Len(accepted)))
    /\ lastQuote.op = "retrieve_quote" =>
          IF lastQuote.selected_quote = <<>> THEN used_indices = lastQuote.used
          ELSE /\ accepted[Len(accepted)] = lastQuote.selected_quote[1].index
               /\ used_indices =
                     (IF Len(lastQuote.used) = 5 THEN Tail(lastQuote.used) ELSE lastQuote.used)
                        \o <<lastQuote.selected_quote[1].index>>

\* Seven quotes have been accepted: the ring holds the third to the seventh
\* and the two oldest have been evicted, the first one before the second.
C26_Witness ==
    /\ Len(accepted) = 7
    /\ used_indices = <<accepted[3], accepted[4], accepted[5], accepted[6], accepted[7]>>
    /\ ~InSeq(accepted[2], <<accepted[3], accepted[4], accepted[5], accepted[6]>>)

----------------------------------------------------------------------------
(* Further claims about the pipeline, checked under SpecPipe *)

\* The streaming call of blend timed out or failed in this turn (blend makes
\* the call only when it was given a quote).
BlendFailed ==
    /\ "blend_stream" \in DOMAIN turn
    /\ \E i \in 1..Len(turn.blend_stream) : turn.blend_stream[i] = ""

\* C27: if the collaborator call inside blend times out, fails or produces
\* no content while a quote was accepted, the turn proceeds on the
\* no-enhancement path: run's final response is the direct answer that
\* generate_answer produced rather than an empty string.
C27_BlendFailureFallsBackToDirectAnswer ==
    ("final" \in DOMAIN turn /\ BlendFailed) => turn.final = turn.answer

\* The last two messages of the window are the user text and the assistant
\* text of this turn.
WindowEndsWithTurn ==
    /\ Len(chat_buffer) >= 2
    /\ chat_buffer[Len(chat_buffer) - 1] = [role |-> "user", content |-> <<state.user_query>>]
    /\ chat_buffer[Len(chat_buffer)] = [role |-> "assistant", content |-> turn.final]

\* The history load_context read is the window as the turns before this one
\* left it.
HistoryIsOfEarlierTurns ==
    pc \in {"fanout", "blend", "finish"} =>
        /\ state.chat_history = chat_buffer
        /\ Len(interactions) = Len(gatekeeper_tasks)
        /\ "final" \notin DOMAIN turn

\* C28: each run writes exactly one interaction (the user query, then the
\* returned final response) to the conversation window, after blend has
\* completed and before the gatekeeper task is scheduled; the history that
\* load_context reads in that same turn does not contain the turn's own
\* query or response. The runs started so far have each written one
\* interaction when the last has ended, and all but the last while it is
\* under way.
C28_EachRunWritesOneInteraction ==
    /\ RunEnded => Len(interactions) = turn.count
    /\ (turn.count > 0 /\ ~RunEnded) => Len(interactions) = turn.count - 1
    /\ (RunEnded /\ "final" \in DOMAIN turn) =>
          /\ interactions[Len(interactions)] = <<<<state.user_query>>, turn.final>>
          /\ WindowEndsWithTurn
    /\ HistoryIsOfEarlierTurns

\* Every run that returns has written one interaction, after blend and
\* together with the creation of its gatekeeper task, and the history it
\* read is of the turns before it.
InteractionWrittenWhenReturned ==
    /\ Len(interactions) = Len(gatekeeper_tasks)
    /\ "final" \in DOMAIN turn <=> (pc = "idle" /\ turn.count > 0)
    /\ "final" \in DOMAIN turn =>
          /\ turn.stages \in DagOrders
          /\ interactions[Len(interactions)] = <<<<state.user_query>>, turn.final>>
          /\ WindowEndsWithTurn
    /\ HistoryIsOfEarlierTurns

----------------------------------------------------------------------------
(* Further claims about the gatekeeper, checked under SpecPipe *)

\* The user texts of the runs that hold none of the trigger phrases.
CasualTexts == {"hi", "I need a lift"}

\* The i-th task is new or has moved in this step.
TaskMoved(i) == i > Len(gatekeeper_tasks) \/ gatekeeper_tasks'[i] # gatekeeper_tasks[i]

\* C29: evaluate_and_store on a text that matches none of the trigger
\* patterns returns immediately: it makes no call to the text-generation
\* collaborator and leaves every memory domain, in memory and on disk,
\* unchanged.
C29_CasualTextIsDropped ==
    [][\A i \in 1..Len(gatekeeper_tasks') :
          (gatekeeper_tasks'[i].text \in CasualTexts /\ TaskMoved(i)) =>
              /\ gatekeeper_tasks'[i].llm = 0
              /\ gatekeeper_tasks'[i].added = <<>>
              /\ gatekeeper_tasks'[i].status \in {"pending", "done"}
              /\ gatekeeper_tasks'[i].status = "done" =>
                    gatekeeper_tasks'[i].result = "returned"
              /\ databases' = databases
              /\ disk' = disk
      ]_vars

\* After a task that stored a fact, the task of a casual text has run and
\* returned without a call of the classifier.
C29_Witness ==
    /\ Len(gatekeeper_tasks) = 2
    /\ gatekeeper_tasks[1].outcome = "stored"
    /\ gatekeeper_tasks[2].text = "hi"
    /\ gatekeeper_tasks[2].status = "done"
    /\ gatekeeper_tasks[2].outcome = "dropped"
    /\ gatekeeper_tasks[2].llm = 0

\* C30: evaluate_and_store calls add_memory at most once, and only after
\* exactly one non-streaming collaborator call whose parsed decision has
\* store equal to true; the target domain is always one of preferences,
\* learning_progress or personal_context, any other or missing type being
\* coerced to personal_context, and the stored record's type equals that
\* domain.
C30_OneAddToAKnownDomain ==
    \A i \in 1..Len(gatekeeper_tasks) :
        LET task == gatekeeper_tasks[i]
        IN /\ Len(task.added) <= 1
           /\ task.llm <= 1
           /\ task.added # <<>> =>
                 LET call == task.added[1]
                     decision == task.decision[1]
                     known == {"preferences", "learning_progress", "personal_context"}
                 IN /\ task.llm = 1
                    /\ decision.store = TRUE
                    /\ call.domain_name \in known
                    /\ call.domain_name =
                          (IF "type" \in DOMAIN decision /\ decision.type \in known
                           THEN decision.type ELSE "personal_context")
                    /\ call.mem_type = call.domain_name
                    /\ call.text = decision.summary
                    /\ \E p \in Positions(databases[call.domain_name].data) :
                          databases[call.domain_name].data[p].type = call.domain_name

\* One task stored a fact whose type was not a domain and another a fact
\* without a type: both went to personal_context.
C30_Witness ==
    /\ Len(gatekeeper_tasks) = 2
    /\ \A i \in 1..2 : /\ gatekeeper_tasks[i].added # <<>>
                        /\ gatekeeper_tasks[i].added[1].domain_name = "personal_context"
    /\ "type" \in DOMAIN gatekeeper_tasks[1].decision[1]
    /\ gatekeeper_tasks[1].decision[1].type = "hobbies"
    /\ "type" \notin DOMAIN gatekeeper_tasks[2].decision[1]

----------------------------------------------------------------------------
(* VectorDBManager across processes: the constructor loads what an earlier *)
(* process persisted                                                        *)

\* A file that does not exist is a field the artifacts of a domain lack.
NoFiles == [d \in {} |-> <<>>]
BothExist(files) == {"index", "data"} \subseteq DOMAIN files

\* os.path.getmtime of the static domain's source file, and an older one.
SourceMtime == "mtime_now"
StaleMtime == "mtime_before"

\* _init_empty_domain: the two artifacts are read as they are when both
\* exist; otherwise an empty store is created and both are written.
InitEmptyDomain(files) ==
    IF BothExist(files)
    THEN [store |-> [index |-> files.index, data |-> files.data], files |-> files]
    ELSE [store |-> EmptyStore, files |-> EmptyStore]

\* _load_or_build_index: the artifacts are read as they are when both exist
\* and the metadata carries the source's modification time; otherwise the
\* store is rebuilt from the source and both are written.
LoadOrBuildIndex(files) ==
    IF /\ BothExist(files)
       /\ "source_mtime" \in DOMAIN files
       /\ files.source_mtime = SourceMtime
    THEN [store |-> [index |-> files.index, data |-> files.data], files |-> files]
    ELSE [store |-> StaticStore,
          files |-> [index |-> StaticStore.index, data |-> StaticStore.data,
                     source_mtime |-> SourceMtime]]

\* _sync_all_indexes over one domain.
SyncDomain(dom, files) ==
    IF dom \in StaticDomains THEN LoadOrBuildIndex(files) ELSE InitEmptyDomain(files)

\* self.databases = {} of a process that has not loaded yet.
Loaded == DOMAIN databases # {}

\* VectorDBManager.__init__
VectorDBManager_init ==
    /\ ~Loaded
    /\ databases' = [dom \in Domains |-> SyncDomain(dom, disk[dom]).store]
    /\ disk' = [dom \in Domains |-> SyncDomain(dom, disk[dom]).files]
    /\ startedEmpty' = {dom \in DynamicDomains : ~BothExist(disk[dom])}
    /\ last' = [op |-> "load"]
    /\ UNCHANGED <<now, adds, quoteVars, pipeVars, concVars>>

\* The process ends; the files stay.
process_exits ==
    /\ Loaded
    /\ databases' = NoFiles
    /\ last' = NoCall
    /\ UNCHANGED <<disk, now, startedEmpty, adds, quoteVars, pipeVars, concVars>>

\* add_memory whose _save_domain fails after faiss.write_index: the call
\* raises with the index file written and the metadata file as it was.
add_memory_fails(dom, text, importance) ==
    /\ adds < MaxAdds
    /\ adds' = adds + 1
    /\ LET new == AddMemoryStore(databases[dom], text, importance, dom, now)
       IN /\ databases' = [databases EXCEPT ![dom] = new]
          /\ disk' = SaveDomainUpTo(disk, dom, new, "write_meta")
          /\ last' = [op |-> "raised", domain |-> dom, text |-> text,
                      importance |-> importance, type |-> dom, error |-> "OSError"]
    /\ UNCHANGED <<now, startedEmpty, quoteVars, pipeVars, concVars>>

\* The store of the domain can take a call: index and metadata agree.
Consistent(dom) == Len(databases[dom].index) = Len(databases[dom].data)

\* What the index directory holds when the first process starts: nothing,
\* the index of a domain whose creation was cut short, the artifacts of a
\* static domain built from an older source, or what an earlier process
\* saved.
LoadInit ==
    /\ \E static \in {NoFiles,
                       [index |-> <<Embed("dark mode")>>, data |-> <<[text |-> "dark mode"]>>,
                        source_mtime |-> StaleMtime],
                       [index |-> StaticStore.index, data |-> StaticStore.data,
                        source_mtime |-> SourceMtime]},
          saved \in {NoFiles, [index |-> <<>>], SavedStore("preferences")} :
          disk = [dom \in Domains |->
                    IF dom \in StaticDomains THEN static
                    ELSE IF dom \in AddDomains THEN saved
                    ELSE NoFiles]
    /\ databases = NoFiles
    /\ startedEmpty = {}
    /\ now = 0
    /\ adds = 0
    /\ last = NoCall
    /\ quote_db = [status |-> "unloaded"]
    /\ quote_files = [json |-> <<>>, index_exists |-> FALSE, index |-> <<>>]
    /\ used_indices = <<>>
    /\ accepted = <<>>
    /\ lastQuote = NoCall
    /\ PipeIdle
    /\ NoOverlap

\* Calls are followed on stores whose index and metadata agree.
LoadNext ==
    \/ VectorDBManager_init
    \/ process_exits
    \/ \E dom \in AddDomains, text \in Texts, importance \in Importances :
           Loaded /\ Consistent(dom) /\ add_memory(dom, text, importance, dom)
    \/ \E dom \in AddDomains, text \in Texts, importance \in Importances :
           Loaded /\ Consistent(dom) /\ add_memory_fails(dom, text, importance)

SpecLoad == LoadInit /\ [][LoadNext]_vars

\* C31: when a memory domain is loaded, any mismatch between its persisted
\* index artifact and metadata artifact (one of them missing, or different
\* record counts) triggers a full rebuild, so that every loaded store
\* satisfies index count = metadata length.
C31_LoadedStoresAreConsistent ==
    Loaded => \A dom \in Domains : Len(databases[dom].index) = Len(databases[dom].data)

----------------------------------------------------------------------------
(* Last claims about the gatekeeper and the stages, checked under SpecPipe *)

\* The importance is a number between 0 and 1.
InUnitInterval(importance) ==
    /\ IsNumber(importance)
    /\ RLeq(Rat(0, 1), importance)
    /\ RLeq(importance, Rat(1, 1))

\* C32: every record stored in a memory domain has an importance in [0,1]:
\* for every classifier output that the gatekeeper accepts (store true), the
\* importance passed to add_memory and persisted is a number between 0 and
\* 1.
C32_ImportanceInUnitInterval ==
    /\ \A i \in 1..Len(gatekeeper_tasks) :
          \A c \in Positions(gatekeeper_tasks[i].added) :
              InUnitInterval(gatekeeper_tasks[i].added[c].importance)
    /\ \A dom \in DynamicDomains :
          /\ \A p \in Positions(databases[dom].data) :
                InUnitInterval(databases[dom].data[p].importance)
          /\ \A p \in Positions(disk[dom].data) :
                InUnitInterval(disk[dom].data[p].importance)

\* The fields of the state a stage writes.
Owned(node) ==
    CASE node = "load_context" -> {"preferences", "chat_history"}
      [] node = "generate_answer" -> {"direct_answer"}
      [] node = "retrieve_quote" -> {"selected_quote"}
      [] node = "blend_answer" -> {"final_response"}

\* A stage has run in this step.
StageRan ==
    /\ turn.count > 0
    /\ turn'.count = turn.count
    /\ Len(turn'.stages) = Len(turn.stages) + 1

\* The state the stage of this step returned: the entry it added to the
\* returns of the parallel step, or the state the graph holds after it (of
\* the two parallel stages, the state of the one that returned last).
StageOutput ==
    IF Len(returns') > Len(returns) THEN returns'[Len(returns')].update ELSE state'

\* C33: each stage's output state differs from its input state only in the
\* fields that stage owns: load_context writes only preferences and
\* chat_history, generate_answer only direct_answer, retrieve_quote only
\* selected_quote, blend only final_response; user_query is never changed by
\* any stage.
C33_StagesWriteOwnFieldsOnly ==
    [][StageRan =>
          LET node == turn'.stages[Len(turn'.stages)]
          IN /\ DOMAIN StageOutput = DOMAIN state
             /\ \A k \in DOMAIN state : k \notin Owned(node) => StageOutput[k] = state[k]
             /\ StageOutput.user_query = state.user_query
      ]_vars

\* The blend of a second turn has written the final response into a state
\* that holds a memory, the history of the first turn and a quote.
C33_Witness ==
    /\ pc = "finish"
    /\ turn.count = 2
    /\ state.preferences # <<>>
    /\ state.chat_history # <<>>
    /\ state.selected_quote # <<>>
    /\ state.final_response # <<>>
    /\ state.user_query = "I need a lift"

----------------------------------------------------------------------------
(* search_with_decay in a worker thread (load_context sends it there with  *)
(* asyncio.to_thread) while add_memory runs in another thread. Neither     *)
(* takes a lock.                                                           *)

\* search_with_decay up to the answer of the index: the positions and
\* distances of the nearest vectors of the index as it is now.
search_looks_up(c, dom, query) ==
    /\ calls[c].op = "none"
    /\ LET db == databases[dom]
           hits == IF Len(db.index) = 0 THEN <<>>
                   ELSE IndexSearch(db.index, Embed(query), Min(FetchWindow, Len(db.index)))
       IN calls' = [calls EXCEPT ![c] =
                      [op |-> "search", domain |-> dom, query |-> query, hits |-> hits,
                       pc |-> IF hits = <<>> THEN "done" ELSE "read",
                       outcome |-> IF hits = <<>> THEN "returned" ELSE "none",
                       records |-> <<>>]]
    /\ UNCHANGED <<memVars, quoteVars, pipeVars, interactions>>

\* The loop over the positions: memory_obj = db["data"][idx] of the metadata
\* as it is now. A position the list does not have raises IndexError.
search_reads(c) ==
    /\ calls[c].op = "search" /\ calls[c].pc = "read"
    /\ LET data == databases[calls[c].domain].data
           hits == calls[c].hits
       IN IF \E i \in 1..Len(hits) : hits[i].idx > Len(data)
          THEN calls' = [calls EXCEPT ![c].pc = "done", ![c].outcome = "IndexError"]
          ELSE calls' = [calls EXCEPT ![c].pc = "done", ![c].outcome = "returned",
                                      ![c].records = [i \in 1..Len(hits) |-> data[hits[i].idx]]]
    /\ UNCHANGED <<memVars, quoteVars, pipeVars, interactions>>

SearchAddsNext ==
    \/ AddsNext
    \/ \E c \in Callers, dom \in AddDomains, query \in Queries : search_looks_up(c, dom, query)
    \/ \E c \in Callers : search_reads(c)

SpecSearchAdds == MemInit /\ [][SearchAddsNext]_vars

\* C34: a search_with_decay that runs on a worker thread concurrently with
\* an add_memory on the same domain never observes a torn store: every
\* position the index lookup returns has a metadata record, and that record
\* is the one whose text was embedded at that position.
C34_SearchNeverSeesTornStore ==
    \A c \in Callers :
        (calls[c].op = "search" /\ calls[c].pc = "done") =>
            /\ calls[c].outcome = "returned"
            /\ \A i \in Positions(calls[c].records) :
                  L2Dist(Embed(calls[c].records[i].text), Embed(calls[c].query))
                     = calls[c].hits[i].dist

----------------------------------------------------------------------------
(* QuoteDBManager across processes: the corpus file is supplied from        *)
(* outside, the index file is what an earlier process wrote                 *)

\* A corpus the file held before the last three quotes were added to it.
EarlierCorpus == SubSeq(QuoteCorpus, 1, 3)

\* What may be supplied as data/quote_dictionary.json between two processes.
SuppliedCorpora == {QuoteCorpus, EarlierCorpus}

\* The corpus file is replaced while no process has it loaded.
corpus_supplied(corpus) ==
    /\ quote_db.status = "unloaded"
    /\ quote_files.json # corpus
    /\ quote_files' = [quote_files EXCEPT !.json = corpus]
    /\ UNCHANGED <<memVars, quote_db, used_indices, accepted, lastQuote, pipeVars, concVars>>

\* The process ends: the retriever and the pipeline's ring go, the files stay.
quote_process_exits ==
    /\ quote_db.status # "unloaded"
    /\ quote_db' = [status |-> "unloaded"]
    /\ used_indices' = <<>>
    /\ accepted' = <<>>
    /\ lastQuote' = NoCall
    /\ UNCHANGED <<memVars, quote_files, pipeVars, concVars>>

\* quote_data = self.quotes[idx] of a fetched position beyond the quote list.
Unreadable(db, query, top_k, used) ==
    LET hits == IPSearch(db.index, query, Min(top_k * 4, Len(db.index)))
    IN \E i \in 1..Len(hits) :
          /\ hits[i].idx # -1
          /\ ~InSeq(hits[i].idx, used)
          /\ hits[i].idx > Len(db.quotes)

\* search_quote of the loaded retriever, whatever index it restored.
search_quote_loaded(query, top_k) ==
    /\ quote_db.status = "ready"
    /\ lastQuote' =
          IF Unreadable(quote_db, query, top_k, <<>>)
          THEN [op |-> "search_quote", query |-> query, top_k |-> top_k, used |-> <<>>,
                outcome |-> "IndexError", results |-> <<>>]
          ELSE [op |-> "search_quote", query |-> query, top_k |-> top_k, used |-> <<>>,
                outcome |-> "returned",
                results |-> SearchQuote(quote_db, query, top_k, <<>>)]
    /\ UNCHANGED <<memVars, quote_db, quote_files, used_indices, accepted, pipeVars, concVars>>

\* _node_retrieve_quote of the loaded retriever: the node as it is when
\* every fetched position can be read, the IndexError of search_quote
\* otherwise.
retrieve_quote_loaded(user_query) ==
    /\ quote_db.status = "ready"
    /\ IF /\ ~TooShort(Split(Lower(Chars(user_query))))
          /\ Unreadable(quote_db, user_query, RetrieveTopK, used_indices)
       THEN /\ lastQuote' = [op |-> "retrieve_quote", query |-> user_query,
                             used |-> used_indices, searched |-> TRUE,
                             outcome |-> "IndexError",
                             candidates |-> <<>>, selected_quote |-> <<>>]
            /\ UNCHANGED <<memVars, quote_db, quote_files, used_indices, accepted,
                           pipeVars, concVars>>
       ELSE retrieve_quote(user_query)

QuoteLoadNext ==
    \/ QuoteDBManager_init
    \/ quote_process_exits
    \/ \E corpus \in SuppliedCorpora : corpus_supplied(corpus)
    \/ \E query \in UserQueries, top_k \in QuoteTopKs : search_quote_loaded(query, top_k)
    \/ \E user_query \in UserQueries : retrieve_quote_loaded(user_query)

SpecQuoteLoad == QuoteInit /\ [][QuoteLoadNext]_vars

\* C35: with a corpus of more than 5 quotes, every turn whose query has at
\* least 4 words gets at least one candidate from search_quote called with
\* the ring as the excluded positions: the ring never excludes every
\* fetched candidate.
C35_RingNeverExcludesEveryCandidate ==
    (/\ quote_db.status = "ready"
     /\ Len(quote_db.quotes) > RingCapacity
     /\ lastQuote.op = "retrieve_quote"
     /\ lastQuote.searched
     /\ "outcome" \notin DOMAIN lastQuote)
        => lastQuote.candidates # <<>>

\* C36: after the load the index holds one entry per loaded quote, the
\* compound document of that quote, and every result of search_quote has a
\* position of the quote list, its metadata being the quote at that
\* position and the quote whose compound document is indexed there.
C36_IndexMatchesLoadedQuotes ==
    quote_db.status = "ready" =>
        /\ Len(quote_db.index) = Len(quote_db.quotes)
        /\ \A i \in Positions(quote_db.quotes) :
              quote_db.index[i] = CompoundDoc(quote_db.quotes[i])
        /\ lastQuote.op = "search_quote" =>
              /\ lastQuote.outcome = "returned"
              /\ \A i \in Positions(lastQuote.results) :
                    /\ lastQuote.results[i].index \in Positions(quote_db.quotes)
                    /\ lastQuote.results[i].metadata
                          = quote_db.quotes[lastQuote.results[i].index]
                    /\ CompoundDoc(lastQuote.results[i].metadata)
                          = quote_db.index[lastQuote.results[i].index]

====
